---- MODULE Spec2Model ----
(***************************************************************************)
(* A model of autocracy's distributed execution plane.                     *)
(*                                                                         *)
(*  SpecRPC        : one RPC endpoint (src/autocracy/rpc.py) with its       *)
(*                   receive loop, its handlers and its remote_command     *)
(*                   callers; the peer is the environment.                 *)
(*  SpecController : the per-agent applies of the controller on one agent  *)
(*                   session (server.Client.apply), the agent silent.      *)
(*  SpecApply      : the same applies together with the agent's receive    *)
(*                   loop and file cache (client.Client).                  *)
(*  SpecAgent      : the agent's receive loop against any peer.            *)
(*  SpecAdmission  : connections of agents to the controller               *)
(*                   (server.Server.client, server.Client.__call__).       *)
(*  SpecFanout     : an admin's apply over the connected agents            *)
(*                   (server.Admin.apply).                                 *)
(*  SpecDecree     : a policy of decrees and the calls of _apply on it     *)
(*                   (src/autocracy/decrees/base.py).                      *)
(*  SpecLoad       : one load of a policy with its include and require     *)
(*                   (common._load_from_repository, utils.normalize_path). *)
(*  SpecMain       : the agent's reconnect loop and fact collector, and    *)
(*                   the controller's slot for the agent's facts           *)
(*                   (client.main, client.Client.fact_collector,           *)
(*                   server.Client.accept_report, server.Admin.report).    *)
(*  SpecGate       : connections on the control socket and the admin       *)
(*                   routes (server.Server.client, server.Admin).          *)
(*  SpecFile       : one File or Symlink decree and the file system entry   *)
(*                   at its target (src/autocracy/decrees/file.py).        *)
(*  SpecService    : one Service decree and its systemd unit               *)
(*                   (src/autocracy/decrees/service.py).                   *)
(*  SpecRepository : one repository view, its get_file and get_files, and  *)
(*                   the files on disk (server.Repository).                *)
(*                                                                         *)
(* Every specification leaves the variables of the others unchanged.      *)
(***************************************************************************)
EXTENDS Integers, Sequences, FiniteSets, TLC

\* ------------------------------------------------------------------ bounds
\* frames the peer sends on one connection of SpecRPC
MaxPeerFrames == 2
\* remote_command invocations made on the endpoint of SpecRPC
MaxCalls == 2
\* the paths of the repository are 1..MaxPath
MaxPath == 2
\* writes to the repository on disk
MaxWrites == 1
\* per-agent applies on the one agent session of SpecController
MaxApplies == 3
\* per-agent applies on the one agent session of SpecApply
MaxAgentApplies == 2
\* per-agent applies of that session that are in progress at a time
MaxOverlap == 2
\* connections that reach Server.client in SpecAdmission
MaxConnections == 2
\* text frames the receive loop of one agent session processes in SpecAdmission
MaxSessionFrames == 1
\* frames an arbitrary peer sends to the agent in SpecAgent
MaxAgentFrames == 4
\* names an admin passes to one call of apply in SpecFanout
MaxNames == 2
\* decrees the policy of SpecDecree declares
MaxDecrees == 2
\* calls of _apply made on that policy and on its decrees from outside
MaxApplyCalls == 2
\* components of a path passed to include or require in SpecLoad
MaxParts == 3
\* calls of include and require the files of one load make in SpecLoad
MaxLoads == 2
\* connection attempts of the agent in SpecMain
MaxAttempts == 3
\* frames of the fact collector in flight at a time
MaxFactFrames == 2
\* writes to the files of the repository in SpecRepository
MaxTreeWrites == 2
\* calls of get_file and get_files on the view of SpecRepository
MaxRepoCalls == 3
\* components of a path passed to get_file or get_files in SpecRepository
MaxRepoParts == 2

\* ------------------------------------------------------------- conventions
\* Python's None where an integer is expected (a cid)
NULL == -1

EmptyMap == [x \in {} |-> 0]

Without(f, k) == [x \in DOMAIN f \ {k} |-> f[x]]

With(f, k, v) == [x \in DOMAIN f \cup {k} |-> IF x = k THEN v ELSE f[x]]

Range(s) == {s[i] : i \in DOMAIN s}

\* ---------------------------------------------------------------- SpecRPC
VARIABLES
    ws_closed,         \* the websocket is closed: the receive loop got a close or an error
    inbox,             \* frames the peer has sent that `async for msg in ws` has not read yet
    outbox,            \* frames this endpoint handed to the transport, in order
    received,          \* history: the frames the receive loop has read, in order
    next_cid,          \* RPC.next_cid, the itertools.count()
    pending_commands,  \* RPC.pending_commands: cid -> future
    calls,             \* the remote_command invocations of the local application
    loop_pc,           \* the receive loop: reading, handling, finally, gathering, done, crashed
    current,           \* the request the receive loop is awaiting an immediate handler for
    background_tasks,  \* RPC.background_tasks: the live tasks, task id -> request
    gathered,          \* the tasks the loop's asyncio.gather is waiting for
    finished,          \* history: requests whose handler task or inline handling has ended
    yielded,           \* the binary blobs the loop has yielded to its consumer
    loop_error,        \* the receive loop is being left by an exception
    peer_sent          \* the number of frames the peer has sent

rpcVars == <<ws_closed, inbox, outbox, received, next_cid, pending_commands, calls,
             loop_pc, current, background_tasks, gathered, finished, yielded,
             loop_error, peer_sent>>

\* the state of SpecApply and SpecAgent
VARIABLES
    disk,                  \* the repository on disk: path -> [content, st]
    writes,                \* how often the repository was written (the clock of st)
    remotely_known_files,  \* server.Client.remotely_known_files: path -> st
    applies,               \* the server.Client.apply coroutines
    apply_cids,            \* the cids remote_command('apply') has allocated
    sent,                  \* every frame sent to the agent on this connection, in order
    agent_read,            \* how many of them the agent's receive loop has read
    files,                 \* client.Client.files: path -> bytes
    pending_files,         \* client.Client.pending_files (a deque)
    agent_pc,              \* the agent's receive loop: reading or crashed
    agent_tasks,           \* the agent's running apply handlers (by cid)
    back,                  \* the agent's replies the controller has not read yet
    snapshots,             \* history: the file cache when the agent dispatched each apply
    stored,                \* history: the agent's `files[filename] = blob` events
    overlapped             \* history: two applies have been in progress at once

applyVars == <<disk, writes, remotely_known_files, applies, apply_cids, sent, agent_read,
               files, pending_files, agent_pc, agent_tasks, back, snapshots, stored,
               overlapped>>

\* what the actions of one part leave alone
VARIABLES
    clients,        \* Server.clients: dict in insertion order, <<[name, session]>>
    connections,    \* per connection: position in Server.client / Client.__call__
    online_result,  \* what the last call of Admin.online returned
    online_keys     \* the keys of clients when that call ran (history)

admissionVars == <<clients, connections, online_result, online_keys>>

VARIABLES
    admin_apply,    \* the call of Admin.apply: position, names, outcome, reply
    dispatched      \* the per-agent applies it started, in the order of gather

fanoutVars == <<admin_apply, dispatched>>

VARIABLES
    decrees,        \* the children of the policy, in declaration order
    policy,         \* the Group at the root: latch, cached flags, position of _apply
    apply_calls,    \* calls of _apply made from outside the tree
    log             \* what the calls of _apply did, in order (history)

decreeVars == <<decrees, policy, apply_calls, log>>

VARIABLES
    seen,           \* the filenames load has been asked for, of one policy load
    loading,        \* the files whose exec is under way, innermost last (__file__)
    evaluated,      \* the filenames handed to exec, in order (history)
    load_calls,     \* calls of include and require made by the files
    last_load,      \* the last call of load: its arguments and how it ended
    load_state      \* where _load_from_repository is

loadVars == <<seen, loading, evaluated, load_calls, last_load, load_state>>

VARIABLES
    main_pc,          \* main(): connect, session, sleep, raised or cancelled
    connect_sleep,    \* main(): the seconds of the last sleep
    connect_errors,   \* main(): the connect errors already logged
    attempts,         \* connection attempts made so far (history)
    collector,        \* the fact collector task: none, running, raised, cancelled
    previous_facts,   \* fact_collector: the fact map last published
    facts_sleep,      \* fact_collector: the seconds of the last sleep
    agent_facts,      \* client.Client.facts
    facts_wire,       \* frames of the agent on their way to the controller
    report,           \* server.Client.report of the agent's session
    report_result     \* what the last call of Admin.report returned

mainVars == <<main_pc, connect_sleep, connect_errors, attempts, collector, previous_facts,
              facts_sleep, agent_facts, facts_wire, report, report_result>>

VARIABLES
    target,           \* the file system entry at the decree's target path
    initial,          \* the entry when the decree was constructed (history)
    file_decree,      \* the File or Symlink decree: class, contents, mode, owner
    file_action,      \* File._action, cached by its first read
    needs,            \* Symlink._needs_remove, _needs_chown, _needs_create
    update_needed,    \* what the last read of _update_needed returned
    file_updated,     \* Decree.updated: unset, True or False
    file_applied,     \* Decree.applied
    file_pc,          \* new, ready, or how _apply ended: returned, raised
    update_ran        \* _update has been called (history)

fileVars == <<target, initial, file_decree, file_action, needs, update_needed, file_updated,
              file_applied, file_pc, update_ran>>

VARIABLES
    unit,             \* the systemd unit: is-enabled answer and is-active
    service,          \* the Service decree: enable, active, mask, reload, restart, activate_if
    change,           \* Service._change_enable, _change_active, _change_mask
    was_active,       \* Service._was_active
    svc_needed,       \* what _update_needed returned to _apply
    svc_should,       \* what _should_activate returned to _apply
    svc_updated,      \* Decree.updated
    svc_activated,    \* Decree.activated
    svc_applied,      \* Decree.applied
    svc_pc,           \* new, ready, or how _apply ended: returned, raised
    commands          \* the state-changing systemctl commands run

serviceVars == <<unit, service, change, was_active, svc_needed, svc_should, svc_updated,
                 svc_activated, svc_applied, svc_pc, commands>>

VARIABLES
    tree,             \* the regular files under the repository root: content and st
    tree_writes,      \* writes to those files so far
    view,             \* Repository.files: normalized path -> (content, st)
    first,            \* what the first read of each path recorded (history)
    last,             \* the last call of get_file or get_files and what it returned
    repo_calls        \* calls of get_file and get_files so far

repoVars == <<tree, tree_writes, view, first, last, repo_calls>>

vars == <<rpcVars, applyVars, admissionVars, fanoutVars, decreeVars, loadVars, mainVars, fileVars, serviceVars, repoVars>>

otherThanRPC == <<applyVars, admissionVars, fanoutVars, decreeVars, loadVars, mainVars, fileVars, serviceVars, repoVars>>

otherThanAdmission == <<rpcVars, applyVars, fanoutVars, decreeVars, loadVars, mainVars, fileVars, serviceVars, repoVars>>

otherThanApply == <<rpcVars, admissionVars, fanoutVars, decreeVars, loadVars, mainVars, fileVars, serviceVars, repoVars>>

otherThanFanout == <<rpcVars, applyVars, decreeVars, loadVars, mainVars, fileVars, serviceVars, repoVars>>

otherThanDecrees == <<rpcVars, applyVars, admissionVars, fanoutVars, loadVars, mainVars, fileVars, serviceVars, repoVars>>

otherThanLoad == <<rpcVars, applyVars, admissionVars, fanoutVars, decreeVars, mainVars, fileVars, serviceVars, repoVars>>

otherThanMain == <<rpcVars, applyVars, admissionVars, fanoutVars, decreeVars, loadVars, fileVars, serviceVars, repoVars>>

otherThanFile == <<rpcVars, applyVars, admissionVars, fanoutVars, decreeVars, loadVars, mainVars, serviceVars, repoVars>>

otherThanService == <<rpcVars, applyVars, admissionVars, fanoutVars, decreeVars, loadVars, mainVars, fileVars, repoVars>>

otherThanRepo == <<rpcVars, applyVars, admissionVars, fanoutVars, decreeVars, loadVars, mainVars, fileVars, serviceVars>>

\* the routes table of an endpoint with both flavours of handler
\* (the agent's: apply is a background handler, accept_files is immediate(...))
Immediate == {"accept_files"}

Background == {"apply"}

routes == Immediate \cup Background

\* a command name that is in no routes table
UnknownCommands == {"bogus"}

\* Text frames the loop cannot take apart: msg.json() raises on a text that is
\* not JSON; `command, cid, *args = call` raises TypeError on a JSON value that is
\* not iterable (a number, null) and ValueError on fewer than two elements.
Malformed == {"not JSON", "5", "[\"apply\"]"}

\* What awaiting a handler can end in: it returns, it raises an Exception, or it
\* raises a BaseException that is no Exception (common.DuplicateConfigfile, which
\* load_policy raises out of the apply handler).
HandlerOutcomes(name) ==
    IF name \in Background THEN {"return", "Exception", "BaseException"}
    ELSE {"return", "Exception"}

NoRequest == [command |-> "none", cid |-> NULL, serial |-> 0]

Frame(type, command, cid, serial) ==
    [type |-> type, command |-> command, cid |-> cid, serial |-> serial]

\* ws.send_json / ws.send_bytes: the frame is handed to the transport, or the
\* send raises because the websocket is closed
Sent(frame) == IF ws_closed THEN outbox ELSE Append(outbox, frame)

\* -- the peer (environment) ------------------------------------------------
PeerFrames ==
    LET serial == peer_sent + 1 IN
    {Frame("TEXT", command, cid, serial) :
        command \in routes \cup UnknownCommands, cid \in {NULL, serial}}
    \cup {Frame("TEXT", command, cid, serial) :
        command \in {"true", "false"}, cid \in 0..(MaxCalls - 1)}
    \cup {Frame(type, "none", NULL, serial) : type \in {"BINARY", "CLOSE", "ERROR"}}
    \cup {Frame("TEXT", text, NULL, serial) : text \in Malformed}

PeerGone == \E f \in Range(received) \cup Range(inbox) : f.type \in {"CLOSE", "ERROR"}

PeerSend ==
    /\ peer_sent < MaxPeerFrames
    /\ ~PeerGone
    /\ ~ws_closed
    /\ \E f \in PeerFrames : inbox' = Append(inbox, f)
    /\ peer_sent' = peer_sent + 1
    /\ UNCHANGED <<ws_closed, outbox, received, next_cid, pending_commands, calls, loop_pc,
                   current, background_tasks, gathered, finished, yielded, loop_error>>
    /\ UNCHANGED otherThanRPC

\* the transport fails, the heartbeat times out or another task closes the websocket
TransportDrop ==
    /\ ~ws_closed
    /\ ws_closed' = TRUE
    /\ UNCHANGED <<inbox, outbox, received, next_cid, pending_commands, calls, loop_pc,
                   current, background_tasks, gathered, finished, yielded, loop_error,
                   peer_sent>>
    /\ UNCHANGED otherThanRPC

\* -- RPC.remote_command ----------------------------------------------------
NewFuture == [state |-> "pending", value |-> 0]

\* rsvp=True, up to the first suspension: allocate the cid, register the future,
\* send the request; a failing send leaves through the finally, which pops the cid
RemoteCommandRsvp(c) ==
    /\ calls[c].pc = "idle"
    /\ IF c = 1 THEN TRUE ELSE calls[c - 1].pc # "idle"
    /\ LET cid == next_cid IN
        /\ next_cid' = next_cid + 1
        /\ outbox' = Sent(Frame("TEXT", "apply", cid, 0))
        /\ IF ws_closed
           THEN /\ pending_commands' = Without(With(pending_commands, cid, NewFuture), cid)
                /\ calls' = [calls EXCEPT ![c] = [pc |-> "done", cid |-> cid,
                                                  outcome |-> "send_failure", value |-> 0]]
           ELSE /\ pending_commands' = With(pending_commands, cid, NewFuture)
                /\ calls' = [calls EXCEPT ![c] = [pc |-> "waiting", cid |-> cid,
                                                  outcome |-> "none", value |-> 0]]
    /\ UNCHANGED <<ws_closed, inbox, received, loop_pc, current, background_tasks, gathered,
                   finished, yielded, loop_error, peer_sent>>
    /\ UNCHANGED otherThanRPC

\* rsvp=False: no cid, no future; returns when the frame is handed to the transport
RemoteCommandNoRsvp(c) ==
    /\ calls[c].pc = "idle"
    /\ IF c = 1 THEN TRUE ELSE calls[c - 1].pc # "idle"
    /\ outbox' = Sent(Frame("TEXT", "apply", NULL, 0))
    /\ calls' = [calls EXCEPT ![c] = [pc |-> "done", cid |-> NULL,
                                      outcome |-> IF ws_closed THEN "send_failure" ELSE "sent",
                                      value |-> 0]]
    /\ UNCHANGED <<ws_closed, inbox, received, next_cid, pending_commands, loop_pc, current,
                   background_tasks, gathered, finished, yielded, loop_error, peer_sent>>
    /\ UNCHANGED otherThanRPC

\* asyncio.wait_for runs out of time and cancels the future
Timeout(c) ==
    /\ calls[c].pc = "waiting"
    /\ pending_commands[calls[c].cid].state = "pending"
    /\ pending_commands' = [pending_commands EXCEPT ![calls[c].cid].state = "cancelled"]
    /\ UNCHANGED <<ws_closed, inbox, outbox, received, next_cid, calls, loop_pc, current,
                   background_tasks, gathered, finished, yielded, loop_error, peer_sent>>
    /\ UNCHANGED otherThanRPC

FutureOutcome(state) ==
    CASE state = "result" -> "result"
      [] state = "exception" -> "CommandError"
      [] OTHER -> "timeout"

\* (the finally left out: the cid stays in the table)
PopCidForgotten(cid) == pending_commands

\* finally: pending_commands.pop(cid, None)
PopCid(cid) == Without(pending_commands, cid)

\* the caller resumes once its future is done; the finally pops the cid
RemoteCommandReturn(c) ==
    /\ calls[c].pc = "waiting"
    /\ LET cid == calls[c].cid
           fut == pending_commands[cid] IN
        /\ fut.state # "pending"
        /\ calls' = [calls EXCEPT ![c] = [pc |-> "done", cid |-> cid,
                                          outcome |-> FutureOutcome(fut.state),
                                          value |-> fut.value]]
        /\ pending_commands' = PopCid(cid)
    /\ UNCHANGED <<ws_closed, inbox, outbox, received, next_cid, loop_pc, current,
                   background_tasks, gathered, finished, yielded, loop_error, peer_sent>>
    /\ UNCHANGED otherThanRPC

\* -- RPC.handle_response ----------------------------------------------------
\* The frame handle_response sends for a request once its handler has ended:
\* [True, cid, *result] when it returned, [False, cid, str(e)] when it raised an
\* Exception. A BaseException passes the `except Exception` and nothing is sent.
ResponseFrames(request, outcome) ==
    CASE outcome = "return" -> <<Frame("TEXT", "true", request.cid, request.serial)>>
      [] outcome = "Exception" -> <<Frame("TEXT", "false", request.cid, request.serial)>>
      [] OTHER -> <<>>

\* whether handle_response itself ends in an exception: the handler's BaseException,
\* or the send on a closed websocket
ResponseFails(outcome) == outcome = "BaseException" \/ ws_closed

Ended(request, outcome, failed) ==
    [serial |-> request.serial, command |-> request.command, cid |-> request.cid,
     outcome |-> outcome, failed |-> failed, open |-> ~ws_closed]

\* -- RPC.__aiter__ ----------------------------------------------------------
Request(msg) == [command |-> msg.command, cid |-> msg.cid, serial |-> msg.serial]

\* a response frame: resolve the future of its cid; an unknown cid is logged;
\* a future that is already done raises InvalidStateError out of the loop
\* (the KeyError of pending_commands[cid] left uncaught)
KeyErrorRaised == "finally"

\* except KeyError: warn("got a response for unknown command id ..."), read on
KeyErrorWarned == "reading"

RecvResponse(msg) ==
    IF msg.cid \notin DOMAIN pending_commands
    THEN /\ loop_pc' = KeyErrorWarned
         /\ UNCHANGED <<pending_commands, loop_error>>
    ELSE IF pending_commands[msg.cid].state = "pending"
    THEN /\ pending_commands' = [pending_commands EXCEPT ![msg.cid] =
                [state |-> IF msg.command = "true" THEN "result" ELSE "exception",
                 value |-> msg.serial]]
         /\ UNCHANGED <<loop_pc, loop_error>>
    ELSE /\ loop_pc' = "finally"
         /\ loop_error' = TRUE
         /\ UNCHANGED pending_commands

\* (an immediate handler started like a background one: the loop reads on)
InlineSpawned == "reading"

\* `await handler(*args)` / `await self.handle_response(...)` inside the loop:
\* the loop is suspended in the handler until it ends
Inline == "handling"

\* one iteration of `async for msg in ws`
Recv ==
    /\ loop_pc = "reading"
    /\ ~ws_closed
    /\ inbox # <<>>
    /\ LET msg == Head(inbox) IN
        /\ inbox' = Tail(inbox)
        /\ received' = Append(received, msg)
        /\ CASE msg.type = "CLOSE" ->
                  /\ ws_closed' = TRUE
                  /\ loop_pc' = "finally"
                  /\ UNCHANGED <<pending_commands, current, background_tasks, yielded,
                                 loop_error>>
             [] msg.type = "ERROR" ->
                  /\ ws_closed' = TRUE
                  /\ loop_pc' = "finally"
                  /\ UNCHANGED <<pending_commands, current, background_tasks, yielded,
                                 loop_error>>
             [] msg.type = "BINARY" ->
                  /\ yielded' = Append(yielded, msg.serial)
                  /\ UNCHANGED <<ws_closed, pending_commands, loop_pc, current,
                                 background_tasks, loop_error>>
             [] msg.type = "TEXT" /\ msg.command \in Malformed ->
                  \* msg.json() or the unpacking raises inside the `async for`:
                  \* nothing catches it, the exception leaves through the finally
                  /\ loop_pc' = "finally"
                  /\ loop_error' = TRUE
                  /\ UNCHANGED <<ws_closed, pending_commands, current, background_tasks,
                                 yielded>>
             [] msg.type = "TEXT" /\ msg.command \in {"true", "false"} ->
                  /\ RecvResponse(msg)
                  /\ UNCHANGED <<ws_closed, current, background_tasks, yielded>>
             [] msg.type = "TEXT" /\ msg.command \in Immediate ->
                  /\ loop_pc' = Inline
                  /\ current' = Request(msg)
                  /\ UNCHANGED <<ws_closed, pending_commands, background_tasks, yielded,
                                 loop_error>>
             [] msg.type = "TEXT" /\ msg.command \in Background ->
                  /\ background_tasks' = With(background_tasks, msg.serial, Request(msg))
                  /\ UNCHANGED <<ws_closed, pending_commands, loop_pc, current, yielded,
                                 loop_error>>
             [] OTHER ->
                  \* unknown command: logged; the error reply is built by
                  \* ws.send_json(...) but never awaited, so no frame is sent
                  UNCHANGED <<ws_closed, pending_commands, loop_pc, current,
                              background_tasks, yielded, loop_error>>
    /\ UNCHANGED <<outbox, next_cid, calls, gathered, finished, peer_sent>>
    /\ UNCHANGED otherThanRPC

\* the websocket was closed under the loop: the iteration stops
RecvClosed ==
    /\ loop_pc = "reading"
    /\ ws_closed
    /\ loop_pc' = "finally"
    /\ UNCHANGED <<ws_closed, inbox, outbox, received, next_cid, pending_commands, calls,
                   current, background_tasks, gathered, finished, yielded, loop_error,
                   peer_sent>>
    /\ UNCHANGED otherThanRPC

\* the immediate handler the loop awaits inline ends
ImmediateDone ==
    /\ loop_pc = "handling"
    /\ \E outcome \in HandlerOutcomes(current.command) :
        IF current.cid = NULL
        THEN \* the bare handler; an Exception is logged
             /\ loop_pc' = "reading"
             /\ finished' = finished \cup {Ended(current, outcome, FALSE)}
             /\ UNCHANGED <<outbox, loop_error>>
        ELSE /\ outbox' = IF ws_closed THEN outbox
                          ELSE outbox \o ResponseFrames(current, outcome)
             /\ finished' = finished \cup {Ended(current, outcome, ResponseFails(outcome))}
             /\ IF ResponseFails(outcome)
                THEN loop_pc' = "finally" /\ loop_error' = TRUE
                ELSE loop_pc' = "reading" /\ UNCHANGED loop_error
    /\ current' = NoRequest
    /\ UNCHANGED <<ws_closed, inbox, received, next_cid, pending_commands, calls,
                   background_tasks, gathered, yielded, peer_sent>>
    /\ UNCHANGED otherThanRPC

\* a background task ends: the handler ends and, for a request, handle_response
\* sends the reply in the same step; the done callback discards the task
TaskDone(t) ==
    /\ t \in DOMAIN background_tasks
    /\ LET request == background_tasks[t] IN
       \E outcome \in HandlerOutcomes(request.command) :
        LET failed == IF request.cid = NULL THEN outcome # "return"
                      ELSE ResponseFails(outcome) IN
        /\ outbox' = IF request.cid = NULL \/ ws_closed THEN outbox
                     ELSE outbox \o ResponseFrames(request, outcome)
        /\ finished' = finished \cup {Ended(request, outcome, failed)}
        /\ background_tasks' = Without(background_tasks, t)
        /\ IF loop_pc = "gathering" /\ t \in gathered
           THEN IF failed
                THEN \* gather raises the first exception out of the finally
                     loop_pc' = "done" /\ loop_error' = TRUE /\ gathered' = {}
                ELSE IF gathered = {t}
                THEN loop_pc' = "finally" /\ gathered' = {} /\ UNCHANGED loop_error
                ELSE gathered' = gathered \ {t} /\ UNCHANGED <<loop_pc, loop_error>>
           ELSE UNCHANGED <<loop_pc, loop_error, gathered>>
    /\ UNCHANGED <<ws_closed, inbox, received, next_cid, pending_commands, calls, current,
                   yielded, peer_sent>>
    /\ UNCHANGED otherThanRPC

\* finally: while background_tasks: await asyncio.gather(*background_tasks)
Finally ==
    /\ loop_pc = "finally"
    /\ IF background_tasks = EmptyMap
       THEN loop_pc' = "done" /\ UNCHANGED gathered
       ELSE loop_pc' = "gathering" /\ gathered' = DOMAIN background_tasks
    /\ UNCHANGED <<ws_closed, inbox, outbox, received, next_cid, pending_commands, calls,
                   current, background_tasks, finished, yielded, loop_error, peer_sent>>
    /\ UNCHANGED otherThanRPC

NextRPC ==
    \/ PeerSend
    \/ TransportDrop
    \/ \E c \in 1..MaxCalls : RemoteCommandRsvp(c)
    \/ \E c \in 1..MaxCalls : RemoteCommandNoRsvp(c)
    \/ \E c \in 1..MaxCalls : Timeout(c)
    \/ \E c \in 1..MaxCalls : RemoteCommandReturn(c)
    \/ Recv
    \/ RecvClosed
    \/ ImmediateDone
    \/ \E t \in DOMAIN background_tasks : TaskDone(t)
    \/ Finally


\* ------------------------------------------------------- claims on SpecRPC
ResponsesTo(cid) ==
    {i \in DOMAIN outbox : outbox[i].command \in {"true", "false"} /\ outbox[i].cid = cid}

\* C1: every request (integer cid, command in routes) whose handling has ended on
\* an open connection has exactly one response frame with its cid in the outbox:
\* [true, cid, ...] if the handler returned, [false, cid, message] if it raised.
C1_ExactlyOneResponse ==
    \A e \in finished :
        (e.cid # NULL /\ e.open) =>
            /\ Cardinality(ResponsesTo(e.cid)) = 1
            /\ \A i \in ResponsesTo(e.cid) :
                 outbox[i].command = (IF e.outcome = "return" THEN "true" ELSE "false")

\* C24: a request (integer cid) whose command is in no routes table has exactly
\* one reply [false, cid, ...] in the outbox once the loop has processed it.
C24_UnknownCommandAnswered ==
    \A i \in DOMAIN received :
        (received[i].type = "TEXT" /\ received[i].command \in UnknownCommands
         /\ received[i].cid # NULL) =>
            /\ Cardinality(ResponsesTo(received[i].cid)) = 1
            /\ \A j \in ResponsesTo(received[i].cid) : outbox[j].command = "false"

\* C2: a result or CommandError reaches a remote_command caller only from a response
\* frame with the cid the call allocated; calls never share a cid; and
\* pending_commands holds exactly the cids of the calls still waiting, so it is
\* empty whenever no call is in progress.
C2_PendingCorrelation ==
    /\ \A c \in 1..MaxCalls :
         calls[c].outcome \in {"result", "CommandError"} =>
            \E i \in DOMAIN received :
                /\ received[i].serial = calls[c].value
                /\ received[i].cid = calls[c].cid
                /\ received[i].command =
                      (IF calls[c].outcome = "result" THEN "true" ELSE "false")
    /\ \A c, d \in 1..MaxCalls :
         (c # d /\ calls[c].cid # NULL /\ calls[d].cid # NULL) => calls[c].cid # calls[d].cid
    /\ DOMAIN pending_commands = {calls[c].cid : c \in {d \in 1..MaxCalls : calls[d].pc = "waiting"}}

\* a call has got its result, another got an error reply, and none is left waiting
C2_Witness ==
    /\ \E c \in 1..MaxCalls : calls[c].outcome = "result"
    /\ \E c \in 1..MaxCalls : calls[c].outcome = "CommandError"
    /\ pending_commands = EmptyMap
    /\ loop_pc = "done"

\* --------------------------------------------------------------- SpecApply
\* The controller's per-agent apply (server.Client.apply) on one agent session,
\* the frames it puts on the agent's connection, and the agent's file cache
\* (client.Client). Paths are numbers, so that sorted() is their numeric order;
\* path 1 is the policy program, which load_policy always reads.
Paths == 1..MaxPath

PolicyPath == 1

Contents == {"B1", "B2"}

RECURSIVE SortedFrom(_, _)
SortedFrom(S, n) ==
    IF S = {} THEN <<>>
    ELSE IF n \in S THEN <<n>> \o SortedFrom(S \ {n}, n + 1)
    ELSE SortedFrom(S, n + 1)

\* sorted(S) for a set of paths
Sorted(S) == SortedFrom(S, 1)

\* An os.stat_result compares as the tuple of its fields, st_atime and st_mtime
\* among them, in whole seconds. mtime is the time of the last write; atime is 0
\* while it is the second of that write and 1 once a later read has moved it.
Stat(mtime, atime) == [mtime |-> mtime, atime |-> atime]

\* dict.get(key): None when the key is missing (the st of no file)
Get(d, k) == IF k \in DOMAIN d THEN d[k] ELSE Stat(0, 0)

IdleApply == [pc |-> "idle", R |-> EmptyMap, K0 |-> EmptyMap, keys |-> <<>>, i |-> 0,
              cid |-> NULL, outcome |-> "none", overwritten |-> FALSE]


\* -- the repository (environment) ---------------------------------------------
\* new bytes for a file
Rewritten(content) == IF content = "B1" THEN "B2" ELSE "B1"

\* a file of the repository is rewritten: new bytes, a later mtime
RepoWrite(p) ==
    /\ writes < MaxWrites
    /\ writes' = writes + 1
    /\ disk' = [disk EXCEPT ![p] = [content |-> Rewritten(@.content),
                                    st |-> Stat(writes + 2, 0)]]
    /\ UNCHANGED <<remotely_known_files, applies, apply_cids, sent, agent_read, files,
                   pending_files, agent_pc, agent_tasks, back, snapshots, stored, overlapped>>
    /\ UNCHANGED otherThanApply

\* -- server.Client.apply --------------------------------------------------------
TextFrame(by, command, cid, args) ==
    [by |-> by, type |-> "TEXT", command |-> command, cid |-> cid, args |-> args, data |-> ""]

BinaryFrame(by, data) ==
    [by |-> by, type |-> "BINARY", command |-> "none", cid |-> NULL, args |-> <<>>, data |-> data]

\* stale_config_files = remotely_known_files.keys() - repository_files.keys()
StaleConfigFiles(known, R) == DOMAIN known \ DOMAIN R

\* (only the files the agent has never been sent)
NewContentUnknownOnly(known, R) == {file \in DOMAIN R : file \notin DOMAIN known}

\* (every file, known or not)
NewContentAll(known, R) == DOMAIN R

\* new_content: the files whose st differs from the one remotely known
NewContent(known, R) == {file \in DOMAIN R : Get(known, file) # R[file].st}

\* remotely_known_files.clear(); remotely_known_files[file] = st for every file
Overwritten(R) == [file \in DOMAIN R |-> R[file].st]

InProgress(a) == applies[a].pc \notin {"idle", "done"}

\* from `remotely_known_files.clear()` to the suspension in remote_command('apply'):
\* overwrite the known files, allocate the cid, send the request
SendApply(a, R, K0, frames) ==
    /\ remotely_known_files' = Overwritten(R)
    /\ apply_cids' = apply_cids + 1
    /\ sent' = frames \o <<TextFrame(a, "apply", apply_cids, <<>>)>>
    /\ applies' = [applies EXCEPT ![a] = [pc |-> "waiting", R |-> R, K0 |-> K0,
                                          keys |-> @.keys, i |-> @.i, cid |-> apply_cids,
                                          outcome |-> "none", overwritten |-> TRUE]]

\* from the computation of new_content to the next suspension: after accept_files
\* is sent, or (nothing new) in the wait for the reply to apply
Transfer(a, R, K0, frames) ==
    LET new_content_keys == Sorted(NewContent(remotely_known_files, R)) IN
    IF new_content_keys # <<>>
    THEN /\ sent' = frames \o <<TextFrame(a, "accept_files", NULL, new_content_keys)>>
         /\ applies' = [applies EXCEPT ![a] = [pc |-> "blobs", R |-> R, K0 |-> K0,
                                               keys |-> new_content_keys, i |-> 1,
                                               cid |-> NULL, outcome |-> "none",
                                               overwritten |-> FALSE]]
         /\ UNCHANGED <<remotely_known_files, apply_cids>>
    ELSE SendApply(a, R, K0, frames)

\* the files the policy has read through the repository view when provisioning
\* is done: the policy program and whatever sources its decrees name
Provisioned(P) == [file \in P |-> disk[file]]

\* The disk after the view has read the files of `accessed`: get_file takes the
\* st and then reads the file, and the read moves the atime of a file when the
\* filesystem updates access times (not with noatime, not within the second of the
\* write, with relatime only the first time after a write).
Accessed(accessed) ==
    [file \in Paths |-> IF file \in accessed
                        THEN [disk[file] EXCEPT !.st = Stat(@.mtime, 1)]
                        ELSE disk[file]]

\* apply() up to its first suspension
ApplyStart(a) ==
    /\ applies[a].pc = "idle"
    /\ IF a = 1 THEN TRUE ELSE applies[a - 1].pc # "idle"
    /\ Cardinality({b \in 1..MaxApplies : InProgress(b)}) < MaxOverlap
    /\ overlapped' = (overlapped \/ \E b \in 1..MaxApplies : InProgress(b))
    /\ \E P \in SUBSET Paths :
        /\ PolicyPath \in P
        /\ \E accessed \in SUBSET {file \in P : disk[file].st.atime = 0} :
             disk' = Accessed(accessed)
        /\ LET R == Provisioned(P)
               K0 == remotely_known_files
               stale_config_files == StaleConfigFiles(remotely_known_files, R) IN
           IF stale_config_files # {}
           THEN /\ sent' = Append(sent, TextFrame(a, "discard_files", NULL,
                                                  Sorted(stale_config_files)))
                /\ applies' = [applies EXCEPT ![a] = [pc |-> "discarded", R |-> R,
                                                      K0 |-> K0, keys |-> <<>>, i |-> 0,
                                                      cid |-> NULL, outcome |-> "none",
                                                      overwritten |-> FALSE]]
                /\ UNCHANGED <<remotely_known_files, apply_cids>>
           ELSE Transfer(a, R, K0, sent)
    /\ UNCHANGED <<writes, agent_read, files, pending_files, agent_pc, agent_tasks,
                   back, snapshots, stored>>
    /\ UNCHANGED otherThanApply

\* load_policy or _provision raises: apply() ends before it has sent anything
ApplyLoadError(a) ==
    /\ applies[a].pc = "idle"
    /\ IF a = 1 THEN TRUE ELSE applies[a - 1].pc # "idle"
    /\ applies' = [applies EXCEPT ![a].pc = "done", ![a].outcome = "PolicyLoadError"]
    /\ UNCHANGED <<disk, writes, remotely_known_files, apply_cids, sent, agent_read, files,
                   pending_files, agent_pc, agent_tasks, back, snapshots, stored, overlapped>>
    /\ UNCHANGED otherThanApply

\* apply() resumes after the send of discard_files
ApplyAfterDiscard(a) ==
    /\ applies[a].pc = "discarded"
    /\ Transfer(a, applies[a].R, applies[a].K0, sent)
    /\ UNCHANGED <<disk, writes, agent_read, files, pending_files, agent_pc, agent_tasks,
                   back, snapshots, stored, overlapped>>
    /\ UNCHANGED otherThanApply

\* for key in new_content_keys: await ws.send_bytes(new_content[key])
ApplySendBlob(a) ==
    /\ applies[a].pc = "blobs"
    /\ applies[a].i <= Len(applies[a].keys)
    /\ sent' = Append(sent, BinaryFrame(a, applies[a].R[applies[a].keys[applies[a].i]].content))
    /\ applies' = [applies EXCEPT ![a].i = @ + 1]
    /\ UNCHANGED <<disk, writes, remotely_known_files, apply_cids, agent_read, files,
                   pending_files, agent_pc, agent_tasks, back, snapshots, stored, overlapped>>
    /\ UNCHANGED otherThanApply

\* (one blob early)
BlobsSentButOne(a) == applies[a].i >= Len(applies[a].keys)

\* the loop over new_content_keys has sent every blob
BlobsSent(a) == applies[a].i > Len(applies[a].keys)

\* apply() resumes after the send of the last blob
ApplyAfterBlobs(a) ==
    /\ applies[a].pc = "blobs"
    /\ BlobsSent(a)
    /\ SendApply(a, applies[a].R, applies[a].K0, sent)
    /\ UNCHANGED <<disk, writes, agent_read, files, pending_files, agent_pc, agent_tasks,
                   back, snapshots, stored, overlapped>>
    /\ UNCHANGED otherThanApply

\* The controller's receive loop reads the agent's reply and resolves the future
\* of its cid; apply() resumes. The agent's handler returns None, so a success
\* reply carries no result and `(update_needed,) = ...` raises ValueError.
\* the end of Client.apply: remote_command raises CommandError on a false
\* reply, and `(update_needed,) = ...` raises ValueError unless the result of a
\* true reply has exactly one element
Unpack(reply) ==
    IF reply.command = "false" THEN "CommandError"
    ELSE IF Len(reply.args) = 1 THEN "returned"
    ELSE "ValueError"

ApplyReply ==
    /\ back # <<>>
    /\ back' = Tail(back)
    /\ LET reply == Head(back)
           waiting == {a \in 1..MaxApplies :
                          applies[a].pc = "waiting" /\ applies[a].cid = reply.cid} IN
        applies' = [a \in 1..MaxApplies |->
                      IF a \in waiting
                      THEN [applies[a] EXCEPT !.pc = "done",
                               !.outcome = Unpack(reply)]
                      ELSE applies[a]]
    /\ UNCHANGED <<disk, writes, remotely_known_files, apply_cids, sent, agent_read, files,
                   pending_files, agent_pc, agent_tasks, snapshots, stored, overlapped>>
    /\ UNCHANGED otherThanApply

\* asyncio.wait_for gives up on the reply to apply
ApplyTimeout(a) ==
    /\ applies[a].pc = "waiting"
    /\ applies' = [applies EXCEPT ![a].pc = "done", ![a].outcome = "TimeoutError"]
    /\ UNCHANGED <<disk, writes, remotely_known_files, apply_cids, sent, agent_read, files,
                   pending_files, agent_pc, agent_tasks, back, snapshots, stored, overlapped>>
    /\ UNCHANGED otherThanApply

\* -- client.Client (the agent) ---------------------------------------------------
\* accept_files: self.pending_files.extend(filenames)
AcceptFiles(pending, filenames) == pending \o filenames

\* discard_files: `del files[filename]` for each filename in turn; a missing one
\* raises KeyError, which ends the handler with the rest not deleted
RECURSIVE DiscardFiles(_, _)
DiscardFiles(cache, filenames) ==
    IF filenames = <<>> THEN cache
    ELSE IF Head(filenames) \notin DOMAIN cache THEN cache
    ELSE DiscardFiles(Without(cache, Head(filenames)), Tail(filenames))

\* (pop() instead: the path at the other end of the deque)
PopRight(pending) == [filename |-> pending[Len(pending)],
                      rest |-> SubSeq(pending, 1, Len(pending) - 1)]

\* filename = pending_files.popleft()
PopLeft(pending) == [filename |-> Head(pending), rest |-> Tail(pending)]

\* one iteration of the agent's receive loop: the RPC loop dispatches a text frame
\* to its handler (accept_files and discard_files are immediate and awaited inline,
\* apply becomes a background task) and yields a binary frame to Client.__call__,
\* which binds it to the head of pending_files
AgentRecv ==
    /\ agent_pc = "reading"
    /\ agent_read < Len(sent)
    /\ agent_read' = agent_read + 1
    /\ LET msg == sent[agent_read + 1] IN
        CASE msg.type = "BINARY" /\ pending_files = <<>> ->
               \* popleft raises IndexError out of the loop
               /\ agent_pc' = "crashed"
               /\ UNCHANGED <<files, pending_files, agent_tasks, snapshots, stored>>
          [] msg.type = "BINARY" /\ pending_files # <<>> ->
               /\ files' = With(files, PopLeft(pending_files).filename, msg.data)
               /\ pending_files' = PopLeft(pending_files).rest
               /\ stored' = Append(stored, [filename |-> PopLeft(pending_files).filename,
                                            data |-> msg.data])
               /\ UNCHANGED <<agent_pc, agent_tasks, snapshots>>
          [] msg.type = "TEXT" /\ msg.command = "accept_files" ->
               /\ pending_files' = AcceptFiles(pending_files, msg.args)
               /\ UNCHANGED <<files, agent_pc, agent_tasks, snapshots, stored>>
          [] msg.type = "TEXT" /\ msg.command = "discard_files" ->
               /\ files' = DiscardFiles(files, msg.args)
               /\ UNCHANGED <<pending_files, agent_pc, agent_tasks, snapshots, stored>>
          [] OTHER ->
               \* apply: a background task
               /\ agent_tasks' = agent_tasks \cup {msg.cid}
               /\ snapshots' = Append(snapshots, [by |-> msg.by, cid |-> msg.cid,
                                                  files |-> files])
               /\ UNCHANGED <<files, pending_files, agent_pc, stored>>
    /\ UNCHANGED <<disk, writes, remotely_known_files, applies, apply_cids, sent, back,
                   overlapped>>
    /\ UNCHANGED otherThanApply

\* how the agent's apply handler ends: it returns None after decree._apply, or
\* one of its steps raises
AgentApplyOutcomes == {"None", "Exception"}

\* handle_response: [False, cid, str(e)] for an exception, and [True, cid, *result]
\* with the empty result in place of None
Response(cid, outcome) ==
    IF outcome = "Exception"
    THEN [command |-> "false", cid |-> cid, args |-> <<"str(e)">>]
    ELSE [command |-> "true", cid |-> cid, args |-> <<>>]

\* the agent's apply handler ends; handle_response sends the reply
AgentApplyDone(cid) ==
    /\ cid \in agent_tasks
    /\ agent_tasks' = agent_tasks \ {cid}
    /\ \E outcome \in AgentApplyOutcomes : back' = Append(back, Response(cid, outcome))
    /\ UNCHANGED <<disk, writes, remotely_known_files, applies, apply_cids, sent, agent_read,
                   files, pending_files, agent_pc, snapshots, stored, overlapped>>
    /\ UNCHANGED otherThanApply

\* the controller alone, against an agent that never replies
NextController ==
    \/ \E p \in Paths : RepoWrite(p)
    \/ \E a \in 1..MaxApplies : ApplyStart(a)
    \/ \E a \in 1..MaxApplies : ApplyLoadError(a)
    \/ \E a \in 1..MaxApplies : ApplyAfterDiscard(a)
    \/ \E a \in 1..MaxApplies : ApplySendBlob(a)
    \/ \E a \in 1..MaxApplies : ApplyAfterBlobs(a)
    \/ \E a \in 1..MaxApplies : ApplyTimeout(a)

\* the controller and the agent of one session
NextApply ==
    \/ \E p \in Paths : RepoWrite(p)
    \/ \E a \in 1..MaxAgentApplies : ApplyStart(a)
    \/ \E a \in 1..MaxAgentApplies : ApplyLoadError(a)
    \/ \E a \in 1..MaxAgentApplies : ApplyAfterDiscard(a)
    \/ \E a \in 1..MaxAgentApplies : ApplySendBlob(a)
    \/ \E a \in 1..MaxAgentApplies : ApplyAfterBlobs(a)
    \/ ApplyReply
    \/ \E a \in 1..MaxAgentApplies : ApplyTimeout(a)
    \/ AgentRecv
    \/ \E cid \in agent_tasks : AgentApplyDone(cid)

\* -- SpecAgent: the agent against a peer that sends any frames ----------------
PathSeqs == {<<p>> : p \in Paths} \cup {<<p, q>> : p \in Paths, q \in Paths}

AgentPeerFrames ==
    {TextFrame(0, command, NULL, args) :
        command \in {"accept_files", "discard_files"}, args \in PathSeqs}
    \cup {BinaryFrame(0, data) : data \in Contents}
    \cup {TextFrame(0, "apply", apply_cids, <<>>)}

AgentPeerSend ==
    /\ Len(sent) < MaxAgentFrames
    /\ \E f \in AgentPeerFrames :
        /\ sent' = Append(sent, f)
        /\ apply_cids' = IF f.command = "apply" THEN apply_cids + 1 ELSE apply_cids
    /\ UNCHANGED <<disk, writes, remotely_known_files, applies, agent_read, files,
                   pending_files, agent_pc, agent_tasks, back, snapshots, stored, overlapped>>
    /\ UNCHANGED otherThanApply

\* the peer reads a reply of the agent
AgentPeerRead ==
    /\ back # <<>>
    /\ back' = Tail(back)
    /\ UNCHANGED <<disk, writes, remotely_known_files, applies, apply_cids, sent, agent_read,
                   files, pending_files, agent_pc, agent_tasks, snapshots, stored, overlapped>>
    /\ UNCHANGED otherThanApply

NextAgent ==
    \/ AgentPeerSend
    \/ AgentPeerRead
    \/ AgentRecv
    \/ \E cid \in agent_tasks : AgentApplyDone(cid)

\* ---------------------------------------- claims on SpecApply and SpecAgent
\* the frames the agent's receive loop has read
ReadFrames == SubSeq(sent, 1, agent_read)

IsBinary(f) == f.type = "BINARY"

RECURSIVE PathsOfAcceptFiles(_)
PathsOfAcceptFiles(frames) ==
    IF frames = <<>> THEN <<>>
    ELSE (IF Head(frames).command = "accept_files" THEN Head(frames).args ELSE <<>>)
         \o PathsOfAcceptFiles(Tail(frames))

\* C3: the k-th binary frame the agent has stored went into the file cache under
\* the k-th path of the accept_files frames it has read (earlier calls first, each
\* call's paths in argument order), with that frame's bytes; the pending queue is
\* what is left of those paths, so each binary frame took exactly the head.
C3_BinaryBindsInOrder ==
    LET appended == PathsOfAcceptFiles(ReadFrames)
        binaries == SelectSeq(ReadFrames, IsBinary) IN
    /\ Len(stored) <= Len(appended)
    /\ \A k \in DOMAIN stored :
         /\ stored[k].filename = appended[k]
         /\ stored[k].data = binaries[k].data
    /\ pending_files = SubSeq(appended, Len(stored) + 1, Len(appended))
    /\ agent_pc = "reading" => Len(stored) = Len(binaries)
    /\ \A p \in DOMAIN files : \E k \in DOMAIN stored :
         stored[k].filename = p /\ (\A j \in DOMAIN stored :
             (j > k /\ stored[j].filename = p) => stored[j].data = files[p])
         /\ ((\A j \in DOMAIN stored : j > k => stored[j].filename # p) => files[p] = stored[k].data)

\* two accept_files calls have been read, two binary frames bound to paths of
\* different calls, with different bytes
C3_Witness ==
    /\ Len(stored) >= 2
    /\ stored[1].filename # stored[2].filename
    /\ stored[1].data # stored[2].data
    /\ Cardinality({i \in 1..agent_read : sent[i].command = "accept_files"}) >= 2

FramesBy(a) == {i \in DOMAIN sent : sent[i].by = a}

CommandsBy(a, command) == {i \in FramesBy(a) : sent[i].command = command}

BinariesBy(a) == {i \in FramesBy(a) : sent[i].type = "BINARY"}

\* the apply has run past its transfer: known is overwritten, the request is sent
Transferred(a) == applies[a].overwritten

\* the indices of S in increasing order
RECURSIVE Ascending(_)
Ascending(S) ==
    IF S = {} THEN <<>>
    ELSE LET least == CHOOSE i \in S : \A j \in S : i <= j IN
         <<least>> \o Ascending(S \ {least})

\* is `s` the ascending enumeration of the set S of paths?
IsSortedSeqOf(s, S) ==
    /\ Range(s) = S
    /\ Len(s) = Cardinality(S)
    /\ \A i, j \in DOMAIN s : i < j => s[i] < s[j]

\* C4: with K = known before the apply and R = repository.files: discard_files
\* carries sorted(keys(K) - keys(R)) and is not sent when that is empty;
\* accept_files carries the sorted paths of R that K lacks or knows with another
\* fingerprint, then one binary frame per such path in that order with R's bytes,
\* and neither is sent when there is no such path.
C4_CacheDelta ==
    \A a \in 1..MaxApplies :
        Transferred(a) =>
            LET K == applies[a].K0
                R == applies[a].R
                stale == {p \in Paths : p \in DOMAIN K /\ p \notin DOMAIN R}
                fresh == {p \in DOMAIN R : p \notin DOMAIN K \/ K[p] # R[p].st}
                blobs == Ascending(BinariesBy(a)) IN
            /\ Cardinality(CommandsBy(a, "discard_files")) = (IF stale = {} THEN 0 ELSE 1)
            /\ \A i \in CommandsBy(a, "discard_files") : IsSortedSeqOf(sent[i].args, stale)
            /\ Cardinality(CommandsBy(a, "accept_files")) = (IF fresh = {} THEN 0 ELSE 1)
            /\ \A i \in CommandsBy(a, "accept_files") :
                 /\ IsSortedSeqOf(sent[i].args, fresh)
                 /\ Len(blobs) = Len(sent[i].args)
                 /\ \A k \in DOMAIN blobs : sent[blobs[k]].data = R[sent[i].args[k]].content
            /\ fresh = {} => blobs = <<>>

\* the same, for applies that never overlap with another one
C4_CacheDeltaWithoutOverlap == ~overlapped => C4_CacheDelta

Rank(f) ==
    CASE f.type = "BINARY" -> 3
      [] f.command = "discard_files" -> 1
      [] f.command = "accept_files" -> 2
      [] OTHER -> 4

\* C5: the frames one apply puts on the agent's connection are in the order
\* discard_files, accept_files, the blobs of that accept_files, apply; and the
\* apply request is on the connection only once every blob of the accept_files
\* is and known has been overwritten.
C5_StrictOrder ==
    \A a \in 1..MaxApplies :
        /\ \A i, j \in FramesBy(a) :
             i < j => /\ Rank(sent[i]) <= Rank(sent[j])
                      /\ Rank(sent[i]) = Rank(sent[j]) => sent[i].type = "BINARY"
        /\ BinariesBy(a) # {} => CommandsBy(a, "accept_files") # {}
        /\ CommandsBy(a, "apply") # {} =>
             /\ applies[a].overwritten
             /\ \A i \in CommandsBy(a, "accept_files") :
                  Cardinality(BinariesBy(a)) = Len(sent[i].args)
             /\ applies[a].pc \in {"waiting", "done"}
        /\ (applies[a].overwritten /\ InProgress(a)) => CommandsBy(a, "apply") # {}

\* an apply has sent discard_files, accept_files, two blobs and the apply request
C5_Witness ==
    \E a \in 1..MaxApplies :
        /\ CommandsBy(a, "discard_files") # {}
        /\ CommandsBy(a, "accept_files") # {}
        /\ Cardinality(BinariesBy(a)) >= 1
        /\ CommandsBy(a, "apply") # {}

\* no apply is between its start and its end
Quiet == \A a \in 1..MaxApplies : ~InProgress(a)

Unchanged(R) ==
    \E b \in 1..MaxApplies :
        /\ applies[b].overwritten
        /\ remotely_known_files = Overwritten(applies[b].R)
        /\ DOMAIN R = DOMAIN applies[b].R
        /\ \A p \in DOMAIN R : /\ R[p].content = applies[b].R[p].content
                                /\ R[p].st.mtime = applies[b].R[p].st.mtime

\* C7: after an apply has overwritten known with the fingerprints of its
\* repository.files, an apply that starts with the repository unchanged sends
\* nothing but the apply request, and known is the same after its overwrite.
C7_SecondApplySendsNothing ==
    [][\A a \in 1..MaxApplies :
          (/\ applies[a].pc = "idle"
           /\ applies'[a].pc \notin {"idle", "done"}
           /\ Unchanged(applies'[a].R))
          => /\ remotely_known_files' = remotely_known_files
             /\ Len(sent') = Len(sent) + 1
             /\ sent'[Len(sent')].command = "apply"
             /\ SubSeq(sent', 1, Len(sent)) = sent]_vars

\* the same, for files whose access time the reads of the controller left alone
C7_SecondApplySendsNothingSameStat ==
    [][\A a \in 1..MaxApplies :
          (/\ applies[a].pc = "idle"
           /\ applies'[a].pc \notin {"idle", "done"}
           /\ Unchanged(applies'[a].R)
           /\ \A p \in DOMAIN applies'[a].R :
                applies'[a].R[p].st = remotely_known_files[p])
          => /\ remotely_known_files' = remotely_known_files
             /\ Len(sent') = Len(sent) + 1
             /\ sent'[Len(sent')].command = "apply"
             /\ SubSeq(sent', 1, Len(sent)) = sent]_vars

\* between the computation of its diff and its overwrite of known
InTransfer(a) == applies[a].pc \in {"discarded", "blobs"}

\* C8: two applies for the same CN are serialized: no apply reads known while
\* another is between its diff and its overwrite, and the frames of one are never
\* interleaved with frames of the other.
C8_Serialized ==
    /\ \A a, b \in 1..MaxApplies : a # b => ~(InTransfer(a) /\ InProgress(b))
    /\ \A i, j, k \in DOMAIN sent :
         (i < j /\ j < k /\ sent[i].by = sent[k].by) => sent[j].by = sent[i].by

\* ------------------------------------------------------------ SpecAdmission
\* server.Server.client, server.Client.__call__ and server.Admin.online: agent
\* connections arrive with a client certificate, are turned away or admitted,
\* register in Server.clients, run their receive loop and deregister.
CommonNames == {"h1", "h2"}

\* a certificate whose subject has no or several commonName values
Confusing == "confusing"

Keys(c) == {c[i].name : i \in DOMAIN c}

\* clients[name]
GetItem(c, name) == (CHOOSE i \in DOMAIN c : c[i].name = name)

\* clients[name] = session: a new key goes to the end, a known key keeps its place
SetItem(c, name, session) ==
    IF name \in Keys(c)
    THEN [c EXCEPT ![GetItem(c, name)].session = session]
    ELSE Append(c, [name |-> name, session |-> session])

\* (the entry stays)
PopNothing(c, name) == c

\* clients.pop(name, None)
Pop(c, name) == SelectSeq(c, LAMBDA entry : entry.name # name)

\* list(self.server.clients)
Online(c) == [i \in DOMAIN c |-> c[i].name]

NewConnection == [pc |-> "new", name |-> "", existing_client |-> NULL,
                  registered |-> FALSE, closed |-> FALSE, frames |-> 0, tasks |-> 0,
                  reason |-> "none", peercert |-> TRUE, pid |-> 0, uid |-> 0,
                  routed |-> {}]

\* Server.client up to its first await: the certificate check, the lookup of the
\* common name in clients, and either the close of the session found there or
\* the websocket handshake
Connect(n) ==
    /\ connections[n].pc = "new"
    /\ IF n = 1 THEN TRUE ELSE connections[n - 1].pc # "new"
    /\ \E commonName \in CommonNames \cup {Confusing} :
        IF commonName = Confusing
        THEN connections' = [connections EXCEPT ![n].pc = "forbidden"]
        ELSE IF commonName \in Keys(clients)
        THEN LET existing_client == clients[GetItem(clients, commonName)].session IN
             \* await existing_client.ws.close()
             connections' = [connections EXCEPT
                                ![n].pc = "closing",
                                ![n].name = commonName,
                                ![n].existing_client = existing_client,
                                ![existing_client].closed = TRUE]
        ELSE \* await ws.prepare(request)
             connections' = [connections EXCEPT ![n].pc = "preparing",
                                                ![n].name = commonName]
    /\ UNCHANGED <<clients, online_result, online_keys>>
    /\ UNCHANGED otherThanAdmission

\* the close of the session found has returned: return web.Response(status=409)
Conflict(n) ==
    /\ connections[n].pc = "closing"
    /\ connections' = [connections EXCEPT ![n].pc = "conflict"]
    /\ UNCHANGED <<clients, online_result, online_keys>>
    /\ UNCHANGED otherThanAdmission

\* the handshake has returned: Client.__call__ registers the session and enters
\* its receive loop
Register(n) ==
    /\ connections[n].pc = "preparing"
    /\ clients' = SetItem(clients, connections[n].name, n)
    /\ connections' = [connections EXCEPT ![n].pc = "receiving", ![n].registered = TRUE]
    /\ UNCHANGED <<online_result, online_keys>>
    /\ UNCHANGED otherThanAdmission

\* the finally of Client.__call__, in the step that ends the receive loop
Deregister(n, reason) ==
    /\ clients' = Pop(clients, connections[n].name)
    /\ connections' = [connections EXCEPT ![n].pc = "ended", ![n].reason = reason]

\* the receive loop processes a text frame: `report` runs as a background task
ReceiveText(n) ==
    /\ connections[n].pc = "receiving"
    /\ ~connections[n].closed
    /\ connections[n].frames < MaxSessionFrames
    /\ connections' = [connections EXCEPT ![n].frames = @ + 1, ![n].tasks = @ + 1]
    /\ UNCHANGED <<clients, online_result, online_keys>>
    /\ UNCHANGED otherThanAdmission

\* a background task of the session ends
SessionTaskDone(n) ==
    /\ connections[n].pc \in {"receiving", "draining"}
    /\ connections[n].tasks > 0
    /\ connections' = [connections EXCEPT ![n].tasks = @ - 1]
    /\ UNCHANGED <<clients, online_result, online_keys>>
    /\ UNCHANGED otherThanAdmission

\* the receive loop yields a binary frame: Client.__call__ breaks out of it
ReceiveBinary(n) ==
    /\ connections[n].pc = "receiving"
    /\ ~connections[n].closed
    /\ Deregister(n, "binary frame")
    /\ UNCHANGED <<online_result, online_keys>>
    /\ UNCHANGED otherThanAdmission

\* the websocket ends (close by the peer or by the controller, transport error)
\* or a frame raises: the finally of the RPC loop waits for the background tasks
\* of the session, if there are any, before the loop is over
ReceiveStop(n) ==
    /\ connections[n].pc = "receiving"
    /\ \E reason \in {"peer close", "transport error", "exception"} :
        IF connections[n].tasks = 0
        THEN Deregister(n, reason)
        ELSE /\ connections' = [connections EXCEPT ![n].pc = "draining",
                                                   ![n].reason = reason]
             /\ UNCHANGED clients
    /\ UNCHANGED <<online_result, online_keys>>
    /\ UNCHANGED otherThanAdmission

\* the background tasks have ended: the receive loop is over
Drained(n) ==
    /\ connections[n].pc = "draining"
    /\ connections[n].tasks = 0
    /\ Deregister(n, connections[n].reason)
    /\ UNCHANGED <<online_result, online_keys>>
    /\ UNCHANGED otherThanAdmission

\* an admin calls the route `online`
AdminOnline ==
    /\ online_result' = Online(clients)
    /\ online_keys' = Keys(clients)
    /\ UNCHANGED <<clients, connections>>
    /\ UNCHANGED otherThanAdmission

NextAdmission ==
    \/ \E n \in 1..MaxConnections : Connect(n)
    \/ \E n \in 1..MaxConnections : Conflict(n)
    \/ \E n \in 1..MaxConnections : Register(n)
    \/ \E n \in 1..MaxConnections : ReceiveText(n)
    \/ \E n \in 1..MaxConnections : SessionTaskDone(n)
    \/ \E n \in 1..MaxConnections : ReceiveBinary(n)
    \/ \E n \in 1..MaxConnections : ReceiveStop(n)
    \/ \E n \in 1..MaxConnections : Drained(n)
    \/ AdminOnline

\* ------------------------------------------------- claims on SpecAdmission
\* clients maps the common name of session n to session n
Registered(n) ==
    \E i \in DOMAIN clients :
        clients[i].name = connections[n].name /\ clients[i].session = n

\* C9: for a connection whose common name had a live session in clients when it
\* arrived, the controller closes that session and admits the connection: it
\* is not turned away.
C9_Takeover ==
    \A n \in 1..MaxConnections :
        connections[n].existing_client # NULL =>
            /\ connections[connections[n].existing_client].closed
            /\ connections[n].pc # "conflict"

\* C10: a session has registered under its common name before its receive loop
\* processes a frame; once its receive loop is over, clients does not map the
\* name to it; and `online` returns the keys of clients at the time of the call,
\* each once.
C10_RegisteredWhileReceiving ==
    /\ \A n \in 1..MaxConnections :
         /\ connections[n].pc \in {"receiving", "draining"} => connections[n].registered
         /\ connections[n].frames > 0 => connections[n].registered
         /\ (connections[n].pc = "receiving" /\ connections[n].frames = 0
             /\ \A m \in 1..MaxConnections :
                  m # n => connections[m].name # connections[n].name)
            => Registered(n)
         /\ connections[n].pc = "ended" => ~Registered(n)
    /\ Range(online_result) = online_keys
    /\ Len(online_result) = Cardinality(online_keys)

\* a session that had processed a frame has ended on an exception and is
\* gone from clients, another session is registered and in its receive loop, and
\* `online` has returned its name
C10_Witness ==
    \E n, m \in 1..MaxConnections :
        /\ connections[n].pc = "ended" /\ connections[n].frames > 0
        /\ connections[n].reason = "exception"
        /\ connections[m].pc = "receiving" /\ Registered(m)
        /\ online_result = <<connections[m].name>>

\* C15: the agent answers every apply with a successful reply whose result has
\* exactly one element, so that the controller's per-agent apply can unpack it.
C15_OneResult ==
    /\ \A i \in DOMAIN back : back[i].command = "true" /\ Len(back[i].args) = 1
    /\ \A a \in 1..MaxAgentApplies : applies[a].outcome \notin {"ValueError", "CommandError"}

\* -- server.Server.client, without a peer certificate ----------------------------
\* admin_users: by default the effective uid of the controller
admin_users == {0}

\* what SO_PEERCRED reports: the pid is 0 where the peer has none to show
Pids == {0, 4242}

Uids == {0, 1000}

\* (any local process)
IsAdminAnyUid(pid, uid) == pid # 0

\* `if pid and uid in self.admin_users`
IsAdmin(pid, uid) == pid # 0 /\ uid \in admin_users

\* Server.client for a connection with no peer certificate (the control
\* socket): an admin gets a websocket and an Admin session, anyone else falls
\* through to web.Response(status=201)
ConnectNoCert(n) ==
    /\ connections[n].pc = "new"
    /\ IF n = 1 THEN TRUE ELSE connections[n - 1].pc # "new"
    /\ \E pid \in Pids, uid \in Uids :
        connections' = [connections EXCEPT
                           ![n].peercert = FALSE, ![n].pid = pid, ![n].uid = uid,
                           ![n].pc = IF IsAdmin(pid, uid) THEN "admin" ELSE "created"]
    /\ UNCHANGED <<clients, online_result, online_keys>>
    /\ UNCHANGED otherThanAdmission

\* the RPC loop of an Admin session runs the route a request names
AdminRequest(n, route) ==
    /\ connections[n].pc = "admin"
    /\ route \notin connections[n].routed
    /\ connections' = [connections EXCEPT ![n].routed = @ \cup {route}]
    /\ IF route = "online"
       THEN online_result' = Online(clients) /\ online_keys' = Keys(clients)
       ELSE UNCHANGED <<online_result, online_keys>>
    /\ UNCHANGED clients
    /\ UNCHANGED otherThanAdmission

\* the receive loop of an Admin session is over: web.Response(status=201)
AdminEnds(n) ==
    /\ connections[n].pc = "admin"
    /\ connections' = [connections EXCEPT ![n].pc = "created"]
    /\ UNCHANGED <<clients, online_result, online_keys>>
    /\ UNCHANGED otherThanAdmission

NextGate ==
    \/ \E n \in 1..MaxConnections : Connect(n)
    \/ \E n \in 1..MaxConnections : Conflict(n)
    \/ \E n \in 1..MaxConnections : Register(n)
    \/ \E n \in 1..MaxConnections : ReceiveStop(n)
    \/ \E n \in 1..MaxConnections : ConnectNoCert(n)
    \/ \E n \in 1..MaxConnections, route \in {"online", "report", "apply", "quit"} :
          AdminRequest(n, route)
    \/ \E n \in 1..MaxConnections : AdminEnds(n)

\* C23: a connection without a peer certificate whose uid is not in admin_users
\* gets no session and none of the admin routes is run for it, and a connection
\* with a peer certificate is never given the admin routes.
C23_AdminGate ==
    \A n \in 1..MaxConnections :
        (connections[n].pc = "admin" \/ connections[n].routed # {}) =>
            /\ ~connections[n].peercert
            /\ connections[n].uid \in admin_users
            /\ connections[n].pid # 0
            /\ ~connections[n].registered

\* a local process that is not an admin has been answered without a session,
\* and an admin has run a route
C23_Witness ==
    \E n, k \in 1..MaxConnections :
        /\ ~connections[n].peercert /\ connections[n].uid \notin admin_users
        /\ connections[n].pid # 0
        /\ connections[n].pc = "created" /\ connections[n].routed = {}
        /\ ~connections[k].peercert /\ connections[k].uid \in admin_users
        /\ "online" \in connections[k].routed

\* ------------------------------------------------------------- SpecFanout
\* -- server.Admin.apply ----------------------------------------------------------
\* a name as the admin passes it: tag is name.startswith('@'), text is the name
\* without that prefix
Literal(text) == [tag |-> FALSE, text |-> text]

Tag(text) == [tag |-> TRUE, text |-> text]

Names == {Literal("h1"), Tag("web"), Tag("none")}

NameLists == UNION {[1..k -> Names] : k \in 0..MaxNames}

\* the variables the tags file of the repository defines
TagsFile == [web |-> {"h1", "h2"}]

\* Python's None where a string is expected (a subject)
None == "None"

\* load_tags: the set-valued variables of the tags file as they are when there
\* is no subject, and otherwise, for each, whether the subject is in it (a bool,
\* which set.update cannot iterate)
load_tags(subject) ==
    [key \in DOMAIN TagsFile |->
        IF subject = None
        THEN [iterable |-> TRUE, members |-> TagsFile[key]]
        ELSE [iterable |-> FALSE, members |-> {}]]

\* Admin(ws=ws, server=self): the session of an admin is built without a config
AdminHasConfig == FALSE

\* self.repository_root reads self.config
repository_root == IF AdminHasConfig THEN "root" ELSE "AttributeError"

NoTargets == [target_names |-> {}, loads |-> 0, error |-> "none"]

\* the loop over names: a name that starts with '@' loads the tags on first use
\* and adds the members of its tag; any other name is passed over
RECURSIVE TargetNames(_, _)
TargetNames(names, acc) ==
    IF names = <<>> \/ acc.error # "none" THEN acc
    ELSE LET name == Head(names) IN
         IF ~name.tag THEN TargetNames(Tail(names), acc)
         ELSE IF acc.loads = 0 /\ repository_root = "AttributeError"
         THEN [acc EXCEPT !.error = "AttributeError"]
         ELSE LET tags == load_tags("tags")
                  loaded == [acc EXCEPT !.loads = IF @ = 0 THEN 1 ELSE @] IN
              IF name.text \notin DOMAIN tags
              THEN TargetNames(Tail(names), loaded)
              ELSE IF ~tags[name.text].iterable
              THEN [loaded EXCEPT !.error = "TypeError"]
              ELSE TargetNames(Tail(names),
                               [loaded EXCEPT !.target_names = @ \cup tags[name.text].members])

\* targets: the sessions in clients whose name is in target_names, or every
\* session in clients when no name was passed
Targets(names, target_names) ==
    IF names # <<>>
    THEN SelectSeq(clients, LAMBDA entry : entry.name \in target_names)
    ELSE clients

\* how Client.apply ends for the controller: load_policy raises, the agent
\* answers false, does not answer in time, or answers true with no result
ClientApplyOutcomes ==
    {"PolicyLoadError", "DuplicateConfigfile", "CommandError", "TimeoutError", "ValueError"}

\* exceptions that `except Exception` in handle_response does not catch
BaseExceptions == {"DuplicateConfigfile"}

IdleAdminApply == [pc |-> "idle", names |-> <<>>, online |-> <<>>, loads |-> 0,
                   error |-> "none", reply |-> "none", result |-> {}]

\* Admin.apply up to its await: the targets are chosen and one Client.apply per
\* target is handed to asyncio.gather; with no target gather has its result at
\* once and the call returns [{}]
AdminApply ==
    /\ admin_apply.pc = "idle"
    /\ \E names \in NameLists :
        LET chosen == TargetNames(names, NoTargets)
            call == [admin_apply EXCEPT !.names = names, !.online = Online(clients),
                                        !.loads = chosen.loads] IN
        IF chosen.error # "none"
        THEN /\ admin_apply' = [call EXCEPT !.pc = "raised", !.error = chosen.error]
             /\ dispatched' = <<>>
        ELSE LET targets == Targets(names, chosen.target_names) IN
             /\ dispatched' = [i \in DOMAIN targets |->
                                  [name |-> targets[i].name, session |-> targets[i].session,
                                   outcome |-> "running"]]
             /\ admin_apply' = IF targets = <<>>
                               THEN [call EXCEPT !.pc = "replied", !.reply = "true"]
                               ELSE [call EXCEPT !.pc = "gathering"]
    /\ UNCHANGED admissionVars
    /\ UNCHANGED otherThanFanout

\* a Client.apply that gather runs ends; the first to raise ends gather with its
\* exception, and the others run on
TargetDone(i) ==
    /\ i \in DOMAIN dispatched
    /\ dispatched[i].outcome = "running"
    /\ \E outcome \in ClientApplyOutcomes :
        /\ dispatched' = [dispatched EXCEPT ![i].outcome = outcome]
        /\ admin_apply' = IF admin_apply.pc = "gathering"
                          THEN [admin_apply EXCEPT !.pc = "raised", !.error = outcome]
                          ELSE admin_apply
    /\ UNCHANGED admissionVars
    /\ UNCHANGED otherThanFanout

\* Admin.apply has raised: handle_response answers [false, cid, str(e)], unless
\* the exception is not an Exception, which ends the task with no answer
AdminRaised ==
    /\ admin_apply.pc = "raised"
    /\ admin_apply' = [admin_apply EXCEPT
                          !.pc = "replied",
                          !.reply = IF admin_apply.error \in BaseExceptions
                                    THEN "none" ELSE "false"]
    /\ UNCHANGED dispatched
    /\ UNCHANGED admissionVars
    /\ UNCHANGED otherThanFanout

\* agents connect and disconnect while an admin calls apply
NextFanout ==
    \/ \E n \in 1..MaxConnections : Connect(n)
    \/ \E n \in 1..MaxConnections : Conflict(n)
    \/ \E n \in 1..MaxConnections : Register(n)
    \/ \E n \in 1..MaxConnections : ReceiveStop(n)
    \/ AdminApply
    \/ \E i \in 1..MaxConnections : TargetDone(i)
    \/ AdminRaised

\* the names of the agents a per-agent apply was dispatched to
DispatchedTo == [i \in DOMAIN dispatched |-> dispatched[i].name]

\* the call has chosen its targets, or has failed to
Called == admin_apply.pc # "idle"

\* C11: an apply whose names are literal names dispatches to exactly the agents
\* connected under one of these names, and the call does not fail when a name
\* matches no agent.
C11_LiteralName ==
    (Called /\ \A i \in DOMAIN admin_apply.names : ~admin_apply.names[i].tag) =>
        /\ admin_apply.error = "none"
        /\ Range(DispatchedTo) =
             {name \in Range(admin_apply.online) :
                 \E i \in DOMAIN admin_apply.names : admin_apply.names[i].text = name}

\* the agents the names of the call select: those named literally and the
\* members of the tags the tags file defines
Selected ==
    {name \in Range(admin_apply.online) :
        \E i \in DOMAIN admin_apply.names :
            LET n == admin_apply.names[i] IN
            IF n.tag THEN n.text \in DOMAIN TagsFile /\ name \in TagsFile[n.text]
            ELSE n.text = name}

\* C12: an apply whose names are tags does not fail, not even for a tag the tags
\* file does not define, loads the tags at most once, and dispatches to exactly
\* the connected agents that are members of one of the tags.
C12_Tag ==
    (Called /\ admin_apply.names # <<>>
     /\ \A i \in DOMAIN admin_apply.names : admin_apply.names[i].tag) =>
        /\ admin_apply.error \notin {"AttributeError", "TypeError"}
        /\ admin_apply.loads <= 1
        /\ Range(DispatchedTo) = Selected

\* C13: an apply with no names dispatches one per-agent apply to every agent
\* connected when it is called, and an apply with names dispatches exactly one to
\* every connected agent its names select, however many of them select it.
C13_OncePerTarget ==
    (Called /\ admin_apply.error = "none") =>
        LET expected == IF admin_apply.names = <<>> THEN Range(admin_apply.online)
                        ELSE Selected IN
        \A name \in expected :
            Cardinality({i \in DOMAIN dispatched : dispatched[i].name = name}) = 1

\* C14: when the per-agent apply of a target has failed, the admin still gets a
\* successful reply, and no per-agent apply of the call is cancelled.
C14_FailureIsolated ==
    (admin_apply.pc = "replied"
     /\ \E i \in DOMAIN dispatched : dispatched[i].outcome \in ClientApplyOutcomes) =>
        admin_apply.reply = "true"

\* ------------------------------------------------------------- SpecDecree
\* -- decrees.base ----------------------------------------------------------------
\* the kinds of decree by the phases they define: File (like the other file
\* decrees and Packages) has _update_needed and _update, Run has _activate
\* only, Service has all three
Kinds == {"File", "Run", "Service"}

HasUpdate(kind) == kind \in {"File", "Service"}

HasActivate(kind) == kind \in {"Run", "Service"}

\* _update_needed is the class attribute False unless the kind defines it
HasDetection(kind) == kind \in {"File", "Service"}

\* activate_if: a static boolean, or a lambda that reads the flag of a decree of
\* the policy (of = 0: of the policy itself)
Static(value) == [callable |-> FALSE, value |-> value, of |-> 0, flag |-> "updated"]

Lambda(of, flag) == [callable |-> TRUE, value |-> FALSE, of |-> of, flag |-> flag]

Predicates ==
    {Static(value) : value \in BOOLEAN}
    \cup {Lambda(of, flag) : of \in 0..MaxDecrees, flag \in {"updated", "activated"}}

\* a decree as constructed: applied = False, and no updated or activated in its
\* instance dict. reloadable: a Service with reload or restart set that is found
\* active and is not started or stopped by its update
NewDecree(kind, reloadable, activate_if) ==
    [kind |-> kind, reloadable |-> reloadable, activate_if |-> activate_if,
     applied |-> FALSE, updated |-> "unset", activated |-> "unset",
     dry_run |-> FALSE, needed |-> "unset", should |-> "unset", error |-> "none",
     detections |-> 0, updates |-> 0, activations |-> 0]

Constructible ==
    {NewDecree(kind, reloadable, activate_if) :
        kind \in Kinds, reloadable \in BOOLEAN, activate_if \in Predicates}
    \ {NewDecree(kind, FALSE, activate_if) :
        kind \in Kinds \ {"Service"}, activate_if \in Predicates}

NewPolicy == [pc |-> "new", applied |-> FALSE, updated |-> "unset", activated |-> "unset",
              i |-> 0, dry_run |-> FALSE, error |-> "none"]

Bool(b) == IF b THEN "True" ELSE "False"

\* (any that takes a flag that is not set for False)
RECURSIVE AnyOfSet(_)
AnyOfSet(flags) ==
    IF flags = <<>> THEN "False"
    ELSE IF Head(flags) = "True" THEN "True"
    ELSE AnyOfSet(Tail(flags))

\* any(decree.updated for decree in self._decrees): the flags are read in order up
\* to the first true one, and reading one that is not set raises (fallback)
RECURSIVE any(_)
any(flags) ==
    IF flags = <<>> THEN "False"
    ELSE IF Head(flags) = "unset" THEN "raise"
    ELSE IF Head(flags) = "True" THEN "True"
    ELSE any(Tail(flags))

FlagsOf(ds, flag) == [k \in DOMAIN ds |-> ds[k][flag]]

\* group.updated, group.activated: the value in the instance dict if there is
\* one, otherwise the initializer computes it
GroupFlag(ds, g, flag) == IF g[flag] # "unset" THEN g[flag] ELSE any(FlagsOf(ds, flag))

\* the initializer stores what it has computed in the instance dict
Cached(ds, g, flag) ==
    IF GroupFlag(ds, g, flag) = "raise" THEN g
    ELSE [g EXCEPT ![flag] = GroupFlag(ds, g, flag)]

\* decree.updated, decree.activated: the instance attribute, or the fallback,
\* which raises
DecreeFlag(ds, k, flag) == IF ds[k][flag] = "unset" THEN "raise" ELSE ds[k][flag]

\* call_if_callable(self.activate_if)
call_if_callable(ds, g, activate_if) ==
    IF ~activate_if.callable THEN Bool(activate_if.value)
    ELSE IF activate_if.of = 0 THEN GroupFlag(ds, g, activate_if.flag)
    ELSE DecreeFlag(ds, activate_if.of, activate_if.flag)

\* _should_activate: Service answers False by itself unless it is reloadable
should_activate(ds, g, k) ==
    IF ds[k].kind = "Service" /\ ~ds[k].reloadable THEN "False"
    ELSE call_if_callable(ds, g, ds[k].activate_if)

\* (the phase is attempted in a dry run as well)
PhaseAlways(dry_run) == "NameError"

\* (dry_run or xyzzy(self._update()) or True): True in a dry run; otherwise the
\* name xyzzy, which nothing defines, is looked up before the phase is called
Phase(dry_run) == IF dry_run THEN "True" ELSE "NameError"

\* (the latch is left as it was)
LatchForgotten(applied) == applied

\* finally: self.applied = True
Latch(applied) == TRUE

Event(k, by, what) == [decree |-> k, by |-> by, what |-> what]

\* Decree._apply(dry_run) on decree k, with `needed` what its detection finds:
\* the decrees, the policy (a predicate may store a flag of the policy) and the
\* events, after the call
LeafApply(ds, g, k, dry_run, needed, by) ==
    IF ds[k].applied
    THEN [decrees |-> ds, policy |-> g, error |-> "reuse",
          events |-> <<Event(k, by, "refused")>>]
    ELSE
    LET detected == IF HasDetection(ds[k].kind) THEN needed ELSE "False"
        d0 == [ds[k] EXCEPT !.dry_run = dry_run, !.needed = detected,
                            !.detections = IF HasDetection(ds[k].kind) THEN @ + 1 ELSE @]
        update == IF detected = "raise" THEN "DetectionError"
                  ELSE IF detected = "False" \/ ~HasUpdate(ds[k].kind) THEN "False"
                  ELSE Phase(dry_run)
    IN
    IF update \notin {"True", "False"}
    THEN [decrees |-> [ds EXCEPT ![k] = [d0 EXCEPT !.applied = Latch(@), !.error = update]],
          policy |-> g, error |-> update,
          events |-> <<Event(k, by, "detection"), Event(k, by, "raised")>>]
    ELSE
    LET d1 == [d0 EXCEPT !.updated = update]
        ds1 == [ds EXCEPT ![k] = d1]
        should == should_activate(ds1, g, k)
        g1 == IF ds[k].kind = "Service" /\ ~ds[k].reloadable THEN g
              ELSE IF d1.activate_if.callable /\ d1.activate_if.of = 0
              THEN Cached(ds1, g, d1.activate_if.flag)
              ELSE g
        activate == IF should = "raise" THEN "RuntimeError"
                    ELSE IF should = "False" \/ ~HasActivate(ds[k].kind) THEN "False"
                    ELSE Phase(dry_run)
        d2 == [d1 EXCEPT !.should = should, !.applied = Latch(@)]
        sofar == <<Event(k, by, "detection"), Event(k, by, "updated"),
                   Event(k, by, "predicate")>>
    IN
    IF activate \notin {"True", "False"}
    THEN [decrees |-> [ds EXCEPT ![k] = [d2 EXCEPT !.error = activate]],
          policy |-> g1, error |-> activate,
          events |-> Append(sofar, Event(k, by, "raised"))]
    ELSE [decrees |-> [ds EXCEPT ![k] = [d2 EXCEPT !.activated = activate]],
          policy |-> g1, error |-> "none",
          events |-> sofar \o <<Event(k, by, "activated"), Event(k, by, "applied")>>]

\* (the last decree first)
Reversed(i) == MaxDecrees + 1 - i

\* the order in which Group._apply takes the decrees: that of self._decrees
Order(i) == i

\* the policy program runs: the decrees are constructed and prepared
Construct ==
    /\ policy.pc = "new"
    /\ decrees' \in [1..MaxDecrees -> Constructible]
    /\ policy' = [policy EXCEPT !.pc = "idle"]
    /\ UNCHANGED <<apply_calls, log>>
    /\ UNCHANGED otherThanDecrees

\* Group._apply is called: it refuses when the latch is set, and otherwise
\* starts on its decrees
GroupApply ==
    /\ policy.pc \in {"idle", "done", "failed"}
    /\ apply_calls < MaxApplyCalls
    /\ apply_calls' = apply_calls + 1
    /\ \E dry_run \in BOOLEAN :
        IF policy.applied
        THEN /\ log' = Append(log, Event(0, "call", "refused"))
             /\ UNCHANGED policy
        ELSE /\ log' = Append(log, Event(0, "call", "started"))
             /\ policy' = [policy EXCEPT !.pc = "applying", !.i = 1, !.dry_run = dry_run]
    /\ UNCHANGED decrees
    /\ UNCHANGED otherThanDecrees

\* (the exception of a decree swallowed: the loop goes on to the next decree)
Swallowed(g, error) == [g EXCEPT !.i = @ + 1]

\* the exception of a decree's _apply leaves the loop of Group._apply through
\* the finally, which sets the latch, and propagates to the caller
Raised(g, error) == [g EXCEPT !.pc = "failed", !.error = error, !.applied = Latch(@)]

\* one turn of the loop of Group._apply: a decree's _apply; when it raises, the
\* loop is left through the finally, which sets the latch of the policy
GroupStep ==
    /\ policy.pc = "applying"
    /\ policy.i <= MaxDecrees
    /\ \E needed \in {"True", "False", "raise"} :
        LET after == LeafApply(decrees, policy, Order(policy.i), policy.dry_run, needed,
                               "group") IN
        /\ decrees' = after.decrees
        /\ log' = log \o after.events
        /\ policy' = IF after.error = "none"
                     THEN [after.policy EXCEPT !.i = @ + 1]
                     ELSE Raised(after.policy, after.error)
    /\ UNCHANGED apply_calls
    /\ UNCHANGED otherThanDecrees

\* the loop has ended: the finally sets the latch and _apply returns the summary
GroupDone ==
    /\ policy.pc = "applying"
    /\ policy.i > MaxDecrees
    /\ policy' = [policy EXCEPT !.pc = "done", !.applied = Latch(@)]
    /\ log' = Append(log, Event(0, "call", "applied"))
    /\ UNCHANGED <<decrees, apply_calls>>
    /\ UNCHANGED otherThanDecrees

\* _apply is called on a decree of the policy itself
DirectApply(k) ==
    /\ policy.pc \in {"idle", "done", "failed"}
    /\ apply_calls < MaxApplyCalls
    /\ apply_calls' = apply_calls + 1
    /\ \E dry_run \in BOOLEAN, needed \in {"True", "False", "raise"} :
        LET after == LeafApply(decrees, policy, k, dry_run, needed, "call") IN
        /\ decrees' = after.decrees
        /\ policy' = after.policy
        /\ log' = log \o after.events
    /\ UNCHANGED otherThanDecrees

\* policy.updated or policy.activated is read, before, during or after the
\* policy's _apply; a read that raises leaves everything as it was
ReadGroup(flag) ==
    /\ policy.pc # "new"
    /\ policy' = Cached(decrees, policy, flag)
    /\ UNCHANGED <<decrees, apply_calls, log>>
    /\ UNCHANGED otherThanDecrees

NextDecree ==
    \/ Construct
    \/ GroupApply
    \/ GroupStep
    \/ GroupDone
    \/ \E k \in 1..MaxDecrees : DirectApply(k)
    \/ \E flag \in {"updated", "activated"} : ReadGroup(flag)

\* the events of decree k (0: of the policy) in the log, in order
EventsOf(k) == SelectSeq(log, LAMBDA e : e.decree = k)

\* C16: a call of _apply on a decree or on the policy with the latch set is
\* refused before it does anything: a decree runs its detection at most once
\* and each of its phases at most once, every call after the one that applied
\* it is refused, and the policy starts on its decrees at most once.
C16_NoReapply ==
    /\ \A k \in DOMAIN decrees :
         /\ decrees[k].detections <= 1
         /\ decrees[k].updates <= 1
         /\ decrees[k].activations <= 1
         /\ \A p, q \in DOMAIN EventsOf(k) :
              (p < q /\ EventsOf(k)[p].what \in {"applied", "raised"}) =>
                  EventsOf(k)[q].what = "refused"
    /\ Cardinality({p \in DOMAIN log : log[p] = Event(0, "call", "started")}) <= 1
    /\ policy.applied =>
         \A p, q \in DOMAIN EventsOf(0) :
             (p < q /\ EventsOf(0)[p].what = "applied") => EventsOf(0)[q].what = "refused"

\* a decree that ran its detection in a first call has refused a second call
C16_Witness ==
    \E k \in DOMAIN decrees :
        /\ decrees[k].detections = 1
        /\ decrees[k].applied
        /\ \E p \in DOMAIN log : log[p] = Event(k, "call", "refused")

\* decree k is a Run whose predicate is `lambda: j.updated` for an earlier decree
\* j, and the loop of the policy has applied it
ObservesEarlier(k, j) ==
    /\ j < k
    /\ decrees[k].kind = "Run"
    /\ decrees[k].activate_if = Lambda(j, "updated")
    /\ \E p \in DOMAIN log : log[p] = Event(k, "group", "applied")

C18_RealApply ==
    \A k \in DOMAIN decrees :
        (decrees[k].applied /\ ~decrees[k].dry_run) =>
            /\ (HasUpdate(decrees[k].kind) /\ decrees[k].needed \in {"True", "False"}) =>
                 /\ decrees[k].updates = (IF decrees[k].needed = "True" THEN 1 ELSE 0)
                 /\ decrees[k].updated = decrees[k].needed
            /\ (HasActivate(decrees[k].kind) /\ decrees[k].should \in {"True", "False"}) =>
                 /\ decrees[k].activations = (IF decrees[k].should = "True" THEN 1 ELSE 0)
                 /\ decrees[k].activated = decrees[k].should

\* the truth value of the predicate of decree k: the static value, or the flag
\* its lambda reads (flags are assigned once)
Truth(k) ==
    LET activate_if == decrees[k].activate_if IN
    IF ~activate_if.callable THEN Bool(activate_if.value)
    ELSE IF activate_if.of = 0 THEN policy[activate_if.flag]
    ELSE decrees[activate_if.of][activate_if.flag]

\* decree k has been applied in a dry run
DryRun(k) == decrees[k].applied /\ decrees[k].dry_run

\* no phase was invoked for decree k, and its detection ran
Detected(k) ==
    /\ decrees[k].updates = 0
    /\ decrees[k].activations = 0
    /\ decrees[k].detections = (IF HasDetection(decrees[k].kind) THEN 1 ELSE 0)

\* C19 (as stated): in a dry run no phase is invoked, every decree runs its
\* detection, `updated` equals the detection result and `activated` equals the
\* truth value of the predicate.
C19_DryRunPurity ==
    \A k \in DOMAIN decrees :
        (DryRun(k) /\ decrees[k].error = "none") =>
            /\ Detected(k)
            /\ decrees[k].updated = decrees[k].needed
            /\ decrees[k].activated = Truth(k)

\* C19 (amended): in a dry run no phase is invoked, every decree the apply
\* reaches runs its detection, `updated` equals the detection result, and
\* `activated` equals the truth value of the predicate for a decree that has an
\* activate phase (a Service only if it is reloadable) and is false for any
\* other decree; a policy that completes a dry run has reached every decree.
C19_DryRunFlags ==
    /\ \A k \in DOMAIN decrees :
         DryRun(k) =>
            /\ Detected(k)
            /\ decrees[k].needed \in {"True", "False"} =>
                 decrees[k].updated = decrees[k].needed
            /\ decrees[k].should \in {"True", "False"} =>
                 decrees[k].activated =
                    (IF HasActivate(decrees[k].kind) THEN decrees[k].should ELSE "False")
            /\ decrees[k].error = "none" =>
                 decrees[k].should =
                    (IF decrees[k].kind = "Service" /\ ~decrees[k].reloadable THEN "False"
                     ELSE Truth(k))
    /\ (policy.pc = "done" /\ policy.dry_run) =>
         \A k \in DOMAIN decrees : DryRun(k) /\ decrees[k].error = "none"

\* a dry run of the policy has completed: a File decree reports the update it
\* found needed and, having no activate phase, is not activated under its
\* predicate True, and a Run decree that observes it is activated
C19_Witness ==
    /\ policy.pc = "done" /\ policy.dry_run
    /\ decrees[1].kind = "File" /\ decrees[1].activate_if = Static(TRUE)
    /\ decrees[1].updated = "True" /\ decrees[1].activated = "False"
    /\ decrees[2].kind = "Run" /\ decrees[2].activate_if = Lambda(1, "updated")
    /\ decrees[2].activated = "True"

\* C20: a value that a read of policy.updated or policy.activated has returned
\* (and the initializer has stored) is the OR of the flags of the decrees, at the
\* time of the read and at any later time, whether the read came before, during
\* or after the policy's _apply.
C20_GroupFlags ==
    \A flag \in {"updated", "activated"} :
        policy[flag] # "unset" => policy[flag] = any(FlagsOf(decrees, flag))

\* the predicate of the first decree has read policy.updated during the
\* policy's _apply, when the second decree had no flag yet, and the policy has
\* since applied the second decree, which did not update
C20_Witness ==
    /\ policy.pc = "done"
    /\ decrees[1].activate_if = Lambda(0, "updated")
    /\ decrees[1].kind = "Service" /\ decrees[1].reloadable
    /\ decrees[1].updated = "True"
    /\ decrees[1].activated = "True"
    /\ decrees[2].updated = "False"
    /\ policy.updated = "True"

\* --------------------------------------------------------------- SpecLoad
\* -- utils.normalize_path --------------------------------------------------------
\* a path string: whether it starts with a slash, and what stands between its
\* slashes
Components == {"", ".", "..", "policy", "x"}

PathStrings ==
    [absolute : BOOLEAN, parts : UNION {[1..n -> Components] : n \in 0..MaxParts}]

Relative(parts) == [absolute |-> FALSE, parts |-> parts]

\* Path(path), then path.relative_to(path.anchor).parts: pathlib drops empty and
\* '.' components and the anchor
Parts(path) == SelectSeq(path.parts, LAMBDA part : part \notin {"", "."})

\* ('..' at the root is kept)
DotDotKept(parts) ==
    IF parts = <<>> THEN <<"..">> ELSE SubSeq(parts, 1, Len(parts) - 1)

\* parts.pop(), and pass on IndexError
DotDot(parts) ==
    IF parts = <<>> THEN parts ELSE SubSeq(parts, 1, Len(parts) - 1)

RECURSIVE NormalizeLoop(_, _)
NormalizeLoop(rest, parts) ==
    IF rest = <<>> THEN parts
    ELSE IF Head(rest) = ".." THEN NormalizeLoop(Tail(rest), DotDot(parts))
    ELSE IF Head(rest) # "." THEN NormalizeLoop(Tail(rest), Append(parts, Head(rest)))
    ELSE NormalizeLoop(Tail(rest), parts)

\* normalize_path(path): the parts of the relative path it returns
normalize_path(path) == NormalizeLoop(Parts(path), <<>>)

\* -- common._load_from_repository ------------------------------------------------
NoLoad == [path |-> Relative(<<>>), ignore_duplicate |-> FALSE, filename |-> <<>>,
           was_seen |-> FALSE, before |-> 0, result |-> "none"]

\* (the filename is not remembered)
SeenAddNothing(s, filename) == s

\* seen.add(filename)
SeenAdd(s, filename) == s \cup {filename}

\* load(path, ignore_duplicate), with `found` whether get_file has the file: the
\* filename is the normalized path (and ".py"); a filename already seen is
\* passed over or raises DuplicateConfigfile, a new one is remembered, fetched
\* and handed to exec
Load(path, ignore_duplicate, found) ==
    LET filename == normalize_path(path)
        call == [path |-> path, ignore_duplicate |-> ignore_duplicate,
                 filename |-> filename, was_seen |-> filename \in seen,
                 before |-> Len(evaluated), result |-> "none"] IN
    IF filename \in seen
    THEN /\ last_load' = [call EXCEPT !.result = IF ignore_duplicate THEN "return"
                                                ELSE "DuplicateConfigfile"]
         /\ load_state' = IF ignore_duplicate THEN "loading" ELSE "raised"
         /\ loading' = IF ignore_duplicate THEN loading ELSE <<>>
         /\ UNCHANGED <<seen, evaluated>>
    ELSE /\ seen' = SeenAdd(seen, filename)
         /\ IF found
            THEN /\ last_load' = [call EXCEPT !.result = "exec"]
                 /\ load_state' = "loading"
                 /\ loading' = Append(loading, filename)
                 /\ evaluated' = Append(evaluated, filename)
            ELSE /\ last_load' = [call EXCEPT !.result = "KeyError"]
                 /\ load_state' = "raised"
                 /\ loading' = <<>>
                 /\ UNCHANGED evaluated

\* _load_from_repository(get_file, 'policy'): include(filename)
LoadPolicy ==
    /\ load_state = "new"
    /\ \E found \in BOOLEAN : Load(Relative(<<"policy">>), FALSE, found)
    /\ UNCHANGED load_calls
    /\ UNCHANGED otherThanLoad

\* the file under exec calls include(path)
Include(path) ==
    /\ load_state = "loading"
    /\ loading # <<>>
    /\ load_calls < MaxLoads
    /\ load_calls' = load_calls + 1
    /\ \E found \in BOOLEAN : Load(path, FALSE, found)
    /\ UNCHANGED otherThanLoad

\* the file under exec calls require(path)
Require(path) ==
    /\ load_state = "loading"
    /\ loading # <<>>
    /\ load_calls < MaxLoads
    /\ load_calls' = load_calls + 1
    /\ \E found \in BOOLEAN : Load(path, TRUE, found)
    /\ UNCHANGED otherThanLoad

\* the exec of the innermost file ends: __file__ is restored, and after the
\* outermost the variables are returned
ExecEnds ==
    /\ load_state = "loading"
    /\ loading # <<>>
    /\ loading' = SubSeq(loading, 1, Len(loading) - 1)
    /\ load_state' = IF Len(loading) = 1 THEN "returned" ELSE "loading"
    /\ UNCHANGED <<seen, evaluated, load_calls, last_load>>
    /\ UNCHANGED otherThanLoad

\* the code of a file raises: the exception leaves every exec under way
ExecRaises ==
    /\ load_state = "loading"
    /\ loading # <<>>
    /\ loading' = <<>>
    /\ load_state' = "raised"
    /\ UNCHANGED <<seen, evaluated, load_calls, last_load>>
    /\ UNCHANGED otherThanLoad

NextLoad ==
    \/ LoadPolicy
    \/ \E path \in PathStrings : Include(path)
    \/ \E path \in PathStrings : Require(path)
    \/ ExecEnds
    \/ ExecRaises

\* the number of times a filename has been handed to exec
Evaluations(filename) == Cardinality({i \in DOMAIN evaluated : evaluated[i] = filename})

\* C21: an include of a filename that the load has already seen raises
\* DuplicateConfigfile and evaluates nothing, a require of one returns and
\* evaluates nothing, and no filename is evaluated more than once in a load.
C21_LoadOnce ==
    /\ \A i \in DOMAIN evaluated : Evaluations(evaluated[i]) = 1
    /\ last_load.was_seen =>
         /\ last_load.result = (IF last_load.ignore_duplicate THEN "return"
                                ELSE "DuplicateConfigfile")
         /\ Len(evaluated) = last_load.before
    /\ last_load.result = "DuplicateConfigfile" => load_state = "raised"
    /\ last_load.result = "exec" =>
         ~last_load.was_seen /\ Len(evaluated) = last_load.before + 1

\* the policy file has required a file and then required it again under another
\* spelling: the second call has returned and the file has been evaluated once
C21_Witness ==
    /\ last_load.ignore_duplicate
    /\ last_load.was_seen
    /\ last_load.result = "return"
    /\ last_load.filename = <<"x">>
    /\ last_load.path = [absolute |-> TRUE, parts |-> <<"policy", "..", "x">>]
    /\ evaluated = <<<<"policy">>, <<"x">>>>
    /\ load_state = "loading"

\* the components of a path string that name something: neither empty nor '.'
Named(path) == SelectSeq(path.parts, LAMBDA part : part # "" /\ part # ".")

\* the position of the first '..' in parts, 0 if there is none
FirstDotDot(parts) ==
    IF \E i \in DOMAIN parts : parts[i] = ".."
    THEN CHOOSE i \in DOMAIN parts :
            parts[i] = ".." /\ \A j \in 1..(i - 1) : parts[j] # ".."
    ELSE 0

\* parts without the positions from..to
Cut(parts, from, to) ==
    SubSeq(parts, 1, from - 1) \o SubSeq(parts, to + 1, Len(parts))

\* every '..' removed together with the nearest remaining component before it,
\* and alone where there is none
RECURSIVE Resolved(_)
Resolved(parts) ==
    LET i == FirstDotDot(parts) IN
    IF i = 0 THEN parts
    ELSE IF i = 1 THEN Resolved(Cut(parts, 1, 1))
    ELSE Resolved(Cut(parts, i - 1, i))

\* C22: normalize_path returns, for every path string, a relative path with no
\* '.' and no '..' component, in which every '..' has consumed the nearest
\* remaining component before it or, at the root, nothing; and normalizing the
\* result again returns it unchanged.
C22_NormalizeIdempotent ==
    last_load.result # "none" =>
        LET normal == normalize_path(last_load.path) IN
        /\ last_load.filename = normal
        /\ \A i \in DOMAIN normal : normal[i] \notin {"", ".", ".."}
        /\ normal = Resolved(Named(last_load.path))
        /\ normalize_path(Relative(normal)) = normal
        /\ normalize_path([absolute |-> TRUE, parts |-> normal]) = normal

\* a path that climbs above the root and then names a file has been loaded
C22_Witness ==
    /\ last_load.path = [absolute |-> TRUE, parts |-> <<"..", "policy", "x">>]
    /\ last_load.filename = <<"policy", "x">>
    /\ last_load.result = "exec"

\* C25: a malformed text frame (not JSON, not an array, fewer than two elements)
\* does not end the receive loop: after taking such a frame the loop reads on
\* and has raised no error.
C25_MalformedDropped ==
    \A i \in DOMAIN received :
        (received[i].type = "TEXT" /\ received[i].command \in Malformed) =>
            ~loop_error

\* C26: once the receive loop has ended, no remote_command(rsvp=True) call is
\* still waiting on a pending future: every such call has been failed.
C26_PendingFailed ==
    loop_pc = "done" =>
        \A c \in DOMAIN calls :
            calls[c].pc = "waiting" => pending_commands[calls[c].cid].state # "pending"

\* the calls that have failed with a timeout
TimedOut == {c \in 1..MaxCalls : calls[c].pc = "done" /\ calls[c].outcome = "timeout"}

\* the loop takes a response frame whose cid is that of a call that timed out
LateReply ==
    /\ loop_pc = "reading"
    /\ inbox # <<>>
    /\ received' = Append(received, Head(inbox))
    /\ Head(inbox).type = "TEXT"
    /\ Head(inbox).command \in {"true", "false"}
    /\ \E c \in TimedOut : calls[c].cid = Head(inbox).cid

\* a call is made with rsvp=False
NoRsvpCall(c) == calls[c].pc = "idle" /\ calls'[c].pc = "done" /\ calls'[c].cid = NULL

\* C27: the cid of a remote_command(rsvp=True) call that failed with a timeout is
\* no longer in pending_commands, and a reply arriving later for that cid is
\* ignored: it changes no future and no call, sends nothing and the loop reads
\* on. A remote_command(rsvp=False) call allocates no cid, adds nothing to
\* pending_commands and is done once its frame is handed to the transport.
C27_TimeoutAndNoRsvp ==
    /\ [](\A c \in TimedOut : calls[c].cid \notin DOMAIN pending_commands)
    /\ [][LateReply =>
            /\ loop_pc' = "reading"
            /\ UNCHANGED <<pending_commands, calls, outbox, loop_error, ws_closed,
                           background_tasks>>]_vars
    /\ [][\A c \in 1..MaxCalls : NoRsvpCall(c) =>
            /\ UNCHANGED <<next_cid, pending_commands>>
            /\ calls'[c].outcome = (IF ws_closed THEN "send_failure" ELSE "sent")
            /\ outbox' = Sent(Frame("TEXT", "apply", NULL, 0))]_vars

\* a call has timed out, a reply with its cid was taken afterwards without
\* harm, and a call with rsvp=False has been sent
C27_Witness ==
    /\ \E c \in TimedOut :
         /\ received # <<>>
         /\ received[Len(received)].command \in {"true", "false"}
         /\ received[Len(received)].cid = calls[c].cid
         /\ received[Len(received)].serial > 1
    /\ \E c \in 1..MaxCalls : calls[c].cid = NULL /\ calls[c].outcome = "sent"
    /\ loop_pc = "reading"
    /\ ~loop_error

\* C28: a binary frame that arrives while the agent's queue of pending file
\* names is empty does not end the agent's session with an unhandled exception:
\* the agent's receive loop is never left by an exception.
C28_BinaryWithoutName == agent_pc # "crashed"

\* ---------------------------------------------------------------- SpecMain
\* client.py: the reconnect loop of main(), Client.__call__ and its fact
\* collector; server.py: the controller's end of the agent's session.
max_connect_interval == 1
max_facts_interval == 30

Min(a, b) == IF a < b THEN a ELSE b

\* what get_facts can return
FactMaps == {"facts1", "facts2"}

\* the routes of the controller's RPC on an agent session
ClientRoutes == {"report"}

\* how session.ws_connect ends: the session opens, the connection cannot be
\* made (ClientConnectorError), or the controller answers 403 or 409 to the
\* handshake (ClientResponseError, which is no ClientConnectorError)
ConnectOutcomes == {"open", "ClientConnectorError", "403", "409"}

\* how `async for blob in self.rpc` ends: the iteration ends, or an exception
\* leaves it
SessionEnds == {"close", "error"}

\* one connection attempt of main()
MainConnect ==
    /\ main_pc = "connect"
    /\ attempts < MaxAttempts
    /\ attempts' = attempts + 1
    /\ \E outcome \in ConnectOutcomes :
        CASE outcome = "open" ->
               \* connect_errors.clear(); Client(ws=ws); client() creates the
               \* fact collector task; the controller has a new Client
               /\ connect_errors' = {}
               /\ main_pc' = "session"
               /\ collector' = "running"
               /\ previous_facts' = "object()"
               /\ facts_sleep' = 0
               /\ agent_facts' = "unset"
               /\ facts_wire' = <<>>
               /\ report' = None
          [] outcome = "ClientConnectorError" ->
               /\ connect_errors' = connect_errors \cup {"str(e)"}
               /\ main_pc' = "sleep"
               /\ UNCHANGED <<collector, previous_facts, facts_sleep, agent_facts,
                              facts_wire, report>>
          [] OTHER ->
               \* only ClientConnectorError is caught
               /\ main_pc' = "raised"
               /\ UNCHANGED <<connect_errors, collector, previous_facts, facts_sleep,
                              agent_facts, facts_wire, report>>
    /\ UNCHANGED <<connect_sleep, report_result>>
    /\ UNCHANGED otherThanMain

\* Client.__call__ ends: the finally cancels the fact collector and awaits it,
\* catching its CancelledError only; an exception of the loop or of a collector
\* that has already raised leaves client() and, not being a
\* ClientConnectorError, main()
MainSessionEnds ==
    /\ main_pc = "session"
    /\ \E end \in SessionEnds :
        IF end = "error" \/ collector = "raised"
        THEN main_pc' = "raised"
        ELSE main_pc' = "sleep"
    /\ collector' = IF collector = "running" THEN "cancelled" ELSE collector
    /\ UNCHANGED <<connect_sleep, connect_errors, attempts, previous_facts, facts_sleep,
                   agent_facts, facts_wire, report, report_result>>
    /\ UNCHANGED otherThanMain

\* connect_sleep = min(connect_sleep + 1, max_connect_interval); sleep
MainSleep ==
    /\ main_pc = "sleep"
    /\ connect_sleep' = Min(connect_sleep + 1, max_connect_interval)
    /\ main_pc' = "connect"
    /\ UNCHANGED <<connect_errors, attempts, collector, previous_facts, facts_sleep,
                   agent_facts, facts_wire, report, report_result>>
    /\ UNCHANGED otherThanMain

\* main() is cancelled at one of its awaits
MainCancelled ==
    /\ main_pc \in {"connect", "session", "sleep"}
    /\ main_pc' = "cancelled"
    /\ collector' = IF collector = "running" THEN "cancelled" ELSE collector
    /\ UNCHANGED <<connect_sleep, connect_errors, attempts, previous_facts, facts_sleep,
                   agent_facts, facts_wire, report, report_result>>
    /\ UNCHANGED otherThanMain

\* one iteration of fact_collector's loop
FactCollector ==
    /\ main_pc = "session"
    /\ collector = "running"
    /\ \E got \in FactMaps \cup {"Exception"}, transport \in {"open", "closing"} :
        IF got = "Exception"
        THEN \* warn; facts_sleep = max_facts_interval, then min(... + 1, max)
             /\ facts_sleep' = Min(max_facts_interval + 1, max_facts_interval)
             /\ UNCHANGED <<collector, previous_facts, agent_facts, facts_wire>>
        ELSE IF got = previous_facts
        THEN /\ facts_sleep' = Min(facts_sleep + 1, max_facts_interval)
             /\ UNCHANGED <<collector, previous_facts, agent_facts, facts_wire>>
        ELSE \* self.facts = previous_facts = facts;
             \* remote_command('facts', facts, rsvp=False)
             /\ agent_facts' = got
             /\ previous_facts' = got
             /\ IF transport = "closing"
                THEN \* send_json raises: the task ends with the exception
                     /\ collector' = "raised"
                     /\ UNCHANGED <<facts_sleep, facts_wire>>
                ELSE /\ Len(facts_wire) < MaxFactFrames
                     /\ facts_wire' = Append(facts_wire, [command |-> "facts", cid |-> NULL,
                                                          args |-> got])
                     /\ facts_sleep' = Min(0 + 1, max_facts_interval)
                     /\ UNCHANGED collector
    /\ UNCHANGED <<main_pc, connect_sleep, connect_errors, attempts, report, report_result>>
    /\ UNCHANGED otherThanMain

\* the controller's receive loop takes a frame of the agent: the handler of a
\* known command runs (accept_report stores its argument); an unknown command
\* without cid is logged and dropped
ControllerRecv ==
    /\ main_pc = "session"
    /\ facts_wire # <<>>
    /\ facts_wire' = Tail(facts_wire)
    /\ report' = IF Head(facts_wire).command \in ClientRoutes
                 THEN Head(facts_wire).args
                 ELSE report
    /\ UNCHANGED <<main_pc, connect_sleep, connect_errors, attempts, collector,
                   previous_facts, facts_sleep, agent_facts, report_result>>
    /\ UNCHANGED otherThanMain

\* Admin.report(name) for the connected agent
AdminReport ==
    /\ main_pc = "session"
    /\ report_result' = report
    /\ UNCHANGED <<main_pc, connect_sleep, connect_errors, attempts, collector,
                   previous_facts, facts_sleep, agent_facts, facts_wire, report>>
    /\ UNCHANGED otherThanMain

NextMain ==
    \/ MainConnect
    \/ MainSessionEnds
    \/ MainSleep
    \/ MainCancelled
    \/ FactCollector
    \/ ControllerRecv
    \/ AdminReport

\* C29: once the controller has taken every frame of a fact collector that has
\* published a fact map, the agent's slot holds that map and Admin.report
\* returns it.
C29_FactsReported ==
    (main_pc = "session" /\ collector = "running" /\ agent_facts \in FactMaps
     /\ facts_wire = <<>>) =>
        report = agent_facts

\* C30: the reconnect loop of main() stops only when it is cancelled: no end of
\* a connection attempt or session raises out of it.
C30_ReconnectForever == main_pc # "raised"

\* ---------------------------------------------------------------- SpecFile
\* decrees/file.py: File (with _FileHandlingMixin._check_file and
\* _FileHandlingAction) and Symlink, against the entry at the target path.
FileContents == {"", "a", "b"}
FileModes == {"0644", "0600"}
Owners == {"root", "user"}
LinkTargets == {"x", "y"}

\* the owner of a file the process creates, and its mode under the umask
euid == "root"
CreatedMode == "0640"

Absent == [kind |-> "absent"]

\* what can be at the target of a File decree
FileTargets ==
    {Absent} \cup [kind : {"file"}, contents : FileContents, mode : FileModes, owner : Owners]

\* what can be at the target of a Symlink decree
SymlinkTargets ==
    FileTargets
    \cup [kind : {"symlink"}, contents : LinkTargets, owner : Owners]
    \cup {[kind |-> "dir", mode |-> "0644", owner |-> o] : o \in Owners}

FileDecrees ==
    [class : {"File"}, contents : FileContents, mode : FileModes \cup {None},
     owner : Owners \cup {None}]

SymlinkDecrees == [class : {"Symlink"}, contents : LinkTargets, owner : Owners \cup {None}]

\* _FileHandlingMixin._check_file: the action detection computes
_check_file(t, d) ==
    IF t.kind = "absent"
    THEN [cached |-> TRUE, create |-> TRUE, chown |-> d.owner, chmod |-> d.mode,
          contents |-> d.contents]
    ELSE [cached |-> TRUE, create |-> FALSE,
          chown |-> IF d.owner # None /\ t.owner # d.owner THEN d.owner ELSE None,
          chmod |-> IF d.mode # None /\ t.mode # d.mode THEN d.mode ELSE None,
          contents |-> IF t.contents # d.contents THEN d.contents ELSE None]

\* _FileHandlingAction.__bool__
ActionBool(a) == a.create \/ a.chown # None \/ a.chmod # None \/ a.contents # None

\* _FileHandlingAction.__call__: open(target, 'w+b' or 'wb') creates the file or
\* truncates it, the contents are written when there are any, then chown, chmod
ActionCall(t, a) ==
    [kind |-> "file",
     contents |-> IF a.contents = None THEN "" ELSE a.contents,
     owner |-> IF a.chown # None THEN a.chown
               ELSE IF t.kind = "absent" THEN euid ELSE t.owner,
     mode |-> IF a.chmod # None THEN a.chmod
              ELSE IF t.kind = "absent" THEN CreatedMode ELSE t.mode]

\* File._action: an initializer, computed by the first read
Action == IF file_action.cached THEN file_action ELSE _check_file(target, file_decree)

\* Symlink._update_needed: the flags after the read; the value is _needs_chown
SymlinkNeeds(t, d, n) ==
    LET same == t.kind = "symlink" /\ t.contents = d.contents
        remove == n.remove \/ (t.kind # "absent" /\ ~same)
        create == n.create \/ t.kind = "absent" \/ remove
        chown == IF create THEN d.owner # None
                 ELSE IF same THEN d.owner # None /\ t.owner # d.owner
                 ELSE n.chown
    IN [remove |-> remove, chown |-> chown, create |-> create]

\* Symlink._update: unlink or rmdir, symlink, chown
SymlinkUpdate(t, d, n) ==
    LET removed == IF n.remove THEN Absent ELSE t
        created == IF n.create THEN [kind |-> "symlink", contents |-> d.contents,
                                     owner |-> euid]
                   ELSE removed
    IN IF n.chown THEN [created EXCEPT !.owner = d.owner] ELSE created

\* a decree is constructed for a target in some state
NewFileDecree ==
    /\ file_pc = "new"
    /\ \E d \in FileDecrees \cup SymlinkDecrees :
       \E t \in (IF d.class = "File" THEN FileTargets ELSE SymlinkTargets) :
        /\ file_decree' = d
        /\ target' = t
        /\ initial' = t
    /\ file_pc' = "ready"
    /\ UNCHANGED <<file_action, needs, update_needed, file_updated, file_applied,
                   update_ran>>
    /\ UNCHANGED otherThanFile

\* a read of the property _update_needed: detection
ReadUpdateNeeded ==
    /\ file_pc # "new"
    /\ IF file_decree.class = "File"
       THEN /\ file_action' = Action
            /\ update_needed' = Bool(ActionBool(Action))
            /\ UNCHANGED needs
       ELSE /\ needs' = SymlinkNeeds(target, file_decree, needs)
            /\ update_needed' = Bool(SymlinkNeeds(target, file_decree, needs).chown)
            /\ UNCHANGED file_action
    /\ UNCHANGED <<target, initial, file_decree, file_updated, file_applied, file_pc,
                   update_ran>>
    /\ UNCHANGED otherThanFile

\* Decree._apply(dry_run): the update phase is due when detection says so; a
\* dry run records it, a real run raises NameError before _update is called.
\* Neither class has an _activate.
FileApply(dry_run) ==
    /\ file_pc = "ready"
    /\ ~file_applied
    /\ LET a == Action
           n == SymlinkNeeds(target, file_decree, needs)
           needed == IF file_decree.class = "File" THEN ActionBool(a) ELSE n.chown
       IN /\ IF file_decree.class = "File"
             THEN file_action' = a /\ UNCHANGED needs
             ELSE needs' = n /\ UNCHANGED file_action
          /\ update_needed' = Bool(needed)
          /\ IF needed /\ Phase(dry_run) = "NameError"
             THEN file_pc' = "raised" /\ UNCHANGED file_updated
             ELSE file_pc' = (IF dry_run THEN "dry" ELSE "returned")
                  /\ file_updated' = Bool(needed)
    /\ file_applied' = TRUE
    /\ UNCHANGED <<target, initial, file_decree, update_ran>>
    /\ UNCHANGED otherThanFile

\* the update phase on its own: _update_needed is read and, when it is true,
\* File._update or Symlink._update is called on the decree
FileUpdate ==
    /\ file_pc # "new"
    /\ ~update_ran
    /\ update_ran' = TRUE
    /\ IF file_decree.class = "File"
       THEN /\ ActionBool(Action)
            /\ file_action' = Action
            /\ target' = ActionCall(target, Action)
            /\ update_needed' = "True"
            /\ UNCHANGED needs
       ELSE /\ SymlinkNeeds(target, file_decree, needs).chown
            /\ needs' = SymlinkNeeds(target, file_decree, needs)
            /\ target' = SymlinkUpdate(target, file_decree,
                                       SymlinkNeeds(target, file_decree, needs))
            /\ update_needed' = "True"
            /\ UNCHANGED file_action
    /\ UNCHANGED <<initial, file_decree, file_updated, file_applied, file_pc>>
    /\ UNCHANGED otherThanFile

NextFile ==
    \/ NewFileDecree
    \/ ReadUpdateNeeded
    \/ \E dry_run \in BOOLEAN : FileApply(dry_run)
    \/ FileUpdate

\* the entry differs from what the File decree wants
FileDiffers(t, d) ==
    \/ t.kind = "absent"
    \/ t.contents # d.contents
    \/ d.mode # None /\ t.mode # d.mode
    \/ d.owner # None /\ t.owner # d.owner

\* C31: for a File decree, detection reports update-needed iff the target is
\* absent or differs in contents, mode or owner; a real apply that finds an
\* update needed runs the update phase and succeeds; and after the update phase
\* the target exists with the decree's contents, mode and owner, so that an
\* update needed only for mode or owner leaves the contents unchanged.
C31_FilePostcondition ==
    file_decree.class = "File" =>
        /\ update_needed # "unset" =>
              (update_needed = "True" <=> FileDiffers(initial, file_decree))
        /\ file_pc # "raised"
        /\ update_ran => ~FileDiffers(target, file_decree)

\* the entry is not the symlink the decree wants
SymlinkDiffers(t, d) ==
    \/ t.kind # "symlink"
    \/ t.contents # d.contents
    \/ d.owner # None /\ t.owner # d.owner

\* C32: for a Symlink decree, detection reports update-needed iff the target
\* is missing, is no symlink, links elsewhere or has another owner than the
\* one specified; and once a real apply has ended, the target is a symlink
\* whose link target is the decree's contents.
C32_SymlinkPostcondition ==
    file_decree.class = "Symlink" =>
        /\ (update_needed # "unset" /\ ~update_ran) =>
              (update_needed = "True" <=> SymlinkDiffers(target, file_decree))
        /\ file_pc \in {"returned", "raised"} =>
              (target.kind = "symlink" /\ target.contents = file_decree.contents)

\* ------------------------------------------------------------- SpecService
\* decrees/service.py: Service, applied by Decree._apply.
Tristate == {None, "True", "False"}

\* what `systemctl is-enabled` and `systemctl is-active` can answer
Units == [enabled : {"enabled", "disabled", "masked"}, active : BOOLEAN]

\* Service._prepare: the settings it does not refuse
Prepared(s) ==
    /\ ~(s.mask = "True" /\ (s.enable = "True" \/ s.active = "True"))
    /\ ~(s.active = "False" /\ (s.reload \/ s.restart))

Services ==
    {s \in [class : {"Service"}, enable : Tristate, active : Tristate, mask : Tristate,
            reload : BOOLEAN, restart : BOOLEAN, activate_if : BOOLEAN] : Prepared(s)}

\* Service._update_needed: the _change_* attributes and _was_active it sets
ServiceChanges(u, s) ==
    [mask |-> IF s.mask # None /\ (u.enabled = "masked") # (s.mask = "True")
              THEN s.mask ELSE None,
     enable |-> IF s.enable # None
                   /\ (u.enabled = "masked" \/ (u.enabled = "enabled") # (s.enable = "True"))
                THEN s.enable ELSE None,
     active |-> IF s.active = None THEN None
                ELSE IF u.active THEN (IF s.active = "False" THEN "False" ELSE None)
                ELSE (IF s.active = "True" THEN "True" ELSE None)]

ServiceWasActive(u, s) == s.active # None /\ u.active

\* Service._update_needed has no return statement: its value is None
UpdateNeededValue(c) == None

\* Service._should_activate
ServiceShouldActivate(u, s, c, w) ==
    IF ~s.reload /\ ~s.restart THEN "False"
    ELSE IF c.active # None THEN "False"
    ELSE IF ~w THEN "False"
    ELSE Bool(s.activate_if)

\* Service._summary evaluates bool(enable), bool(active) or bool(mask), names
\* nothing defines, when the matching _change_* attribute is true
SummaryRaises(c) == c.enable = "True" \/ c.active = "True" \/ c.mask = "True"

NewService ==
    /\ svc_pc = "new"
    /\ \E s \in Services, u \in Units :
        /\ service' = s
        /\ unit' = u
    /\ svc_pc' = "ready"
    /\ UNCHANGED <<change, was_active, svc_needed, svc_should, svc_updated, svc_activated,
                   svc_applied, commands>>
    /\ UNCHANGED otherThanService

\* Decree._apply(dry_run) on the Service: detection, the update phase when the
\* value of _update_needed is true, the activate phase when _should_activate
\* is, then the summary
ServiceApply(dry_run) ==
    /\ svc_pc = "ready"
    /\ ~svc_applied
    /\ LET c == ServiceChanges(unit, service)
           w == ServiceWasActive(unit, service)
           needed == UpdateNeededValue(c)
           should == ServiceShouldActivate(unit, service, c, w)
       IN /\ change' = c
          /\ was_active' = w
          /\ svc_needed' = needed
          /\ IF needed = "True" /\ Phase(dry_run) = "NameError"
             THEN \* the update phase raises
                  /\ svc_pc' = "raised"
                  /\ UNCHANGED <<svc_updated, svc_should, svc_activated>>
             ELSE /\ svc_updated' = needed
                  /\ svc_should' = should
                  /\ IF should = "True" /\ Phase(dry_run) = "NameError"
                     THEN svc_pc' = "raised" /\ UNCHANGED svc_activated
                     ELSE /\ svc_activated' = should
                          /\ svc_pc' = IF SummaryRaises(c) THEN "raised" ELSE "returned"
    /\ svc_applied' = TRUE
    /\ UNCHANGED <<unit, service, commands>>
    /\ UNCHANGED otherThanService

NextService ==
    \/ NewService
    \/ \E dry_run \in BOOLEAN : ServiceApply(dry_run)

\* the unit's state differs from a value the decree specifies
ServiceDiffers(u, s) ==
    \/ s.mask # None /\ (u.enabled = "masked") # (s.mask = "True")
    \/ s.enable # None /\ (u.enabled = "enabled") # (s.enable = "True")
    \/ s.active # None /\ u.active # (s.active = "True")

\* C33: for a Service decree, detection reports update-needed iff the unit's
\* enabled, masked or active state differs from a value the decree specifies.
C33_ServiceDetection ==
    svc_needed # "unset" => (svc_needed = "True" <=> ServiceDiffers(unit, service))

\* C34: with reload or restart set and a true activate_if, the Service's
\* activate phase is due iff the unit was active before the update phase and
\* the update phase neither starts nor stops it, whatever `active` is.
C34_ServiceActivation ==
    (svc_should # "unset" /\ (service.reload \/ service.restart) /\ service.activate_if) =>
        (svc_should = "True" <=> (unit.active /\ change.active = None))

\* the tasks the step creates
Spawned == DOMAIN background_tasks' \ DOMAIN background_tasks

\* C35: while an immediate handler runs the loop takes no further frame, so
\* immediate handlers and binary frames take effect in arrival order; a
\* background handler leaves the loop reading, and background handlers are
\* started in arrival order.
C35_DispatchModes ==
    /\ [][received' # received => current = NoRequest]_vars
    /\ [](current # NoRequest =>
            /\ loop_pc = "handling"
            /\ \A i \in DOMAIN yielded : yielded[i] < current.serial
            /\ \A e \in finished : e.command \in Immediate => e.serial < current.serial)
    /\ [](\A i, j \in DOMAIN yielded : i < j => yielded[i] < yielded[j])
    /\ [][yielded' # yielded =>
            \A e \in finished : e.command \in Immediate => e.serial < yielded'[Len(yielded')]]_vars
    /\ [][\A s \in Spawned :
            /\ loop_pc' = "reading"
            /\ \A t \in DOMAIN background_tasks : t < s
            /\ \A e \in finished : e.command \in Background => e.serial < s]_vars

\* a background handler is still running and an immediate handler of a later
\* frame has run to its end
C35_Witness ==
    \E t \in DOMAIN background_tasks :
        \E e \in finished : e.command \in Immediate /\ e.serial > t

\* C36: when the receive loop has returned, whatever ended it and however its
\* background tasks ended, no background task of the session is outstanding:
\* the set of tracked tasks is empty.
C36_TasksAwaited == loop_pc = "done" => background_tasks = EmptyMap

\* the decrees the loop of the policy had not reached when it was left
Later == {Order(j) : j \in (policy.i + 1)..MaxDecrees}

\* C37: when the _apply of a decree raises during the policy's apply (in its
\* detection, update phase, predicate or activate phase), that decree and the
\* policy both end with the latch set, the exception reaches the caller, and
\* the loop applies no later decree: none of its phases runs and a decree
\* nothing else has called keeps its latch unset. And a decree or policy whose
\* updated or activated is true after its _apply has its latch set.
C37_ErrorAborts ==
    /\ \A k \in DOMAIN decrees : decrees[k].error # "none" => decrees[k].applied
    /\ \A p \in DOMAIN log :
         (log[p].by = "group" /\ log[p].what \in {"raised", "refused"}) =>
             /\ policy.pc = "failed"
             /\ policy.error # "none"
             /\ policy.applied
             /\ decrees[log[p].decree].applied
             /\ log[p].decree = Order(policy.i)
             /\ \A q \in DOMAIN log : q > p => log[q].by # "group"
             /\ \A k \in Later :
                  /\ \A q \in DOMAIN log : log[q].decree = k => log[q].by # "group"
                  /\ EventsOf(k) = <<>> =>
                       (~decrees[k].applied /\ decrees[k].detections = 0
                        /\ decrees[k].updated = "unset" /\ decrees[k].activated = "unset")
    /\ \A k \in DOMAIN decrees :
         (decrees[k].updated = "True" \/ decrees[k].activated = "True") => decrees[k].applied
    /\ (policy.pc \in {"done", "failed"}
        /\ (policy.updated = "True" \/ policy.activated = "True")) => policy.applied

\* the first decree raised in the policy's apply after its detection found an
\* update needed; the policy failed and the second decree was never applied
C37_Witness ==
    /\ policy.pc = "failed"
    /\ policy.i = 1
    /\ decrees[Order(1)].error # "none"
    /\ decrees[Order(1)].needed = "True"
    /\ decrees[Order(1)].applied
    /\ policy.applied
    /\ ~decrees[Order(2)].applied

\* ---------------------------------------------------------- SpecRepository
\* server.py: Repository.get_file and Repository.get_files on one view, while
\* the files under the root are rewritten.
RepoDirs == {<<>>, <<"policy">>}

\* the paths the calls are made with
RepoPathStrings ==
    [absolute : BOOLEAN, parts : UNION {[1..n -> Components] : n \in 0..MaxRepoParts}]

\* the regular files at or below a directory
Under(dir) == {k \in DOMAIN tree : Len(k) > Len(dir) /\ SubSeq(k, 1, Len(dir)) = dir}

\* a file of the repository is rewritten: new bytes, a later mtime
TreeWrite(k) ==
    /\ tree_writes < MaxTreeWrites
    /\ tree_writes' = tree_writes + 1
    /\ tree' = [tree EXCEPT ![k] = [content |-> Rewritten(@.content),
                                    st |-> Stat(tree_writes + 2, 0)]]
    /\ UNCHANGED <<view, first, last, repo_calls>>
    /\ UNCHANGED otherThanRepo

\* (a view that reads the disk on every call)
NeverHit(fs, key) == FALSE

\* `content, _ = files[key]` succeeds: the path was read before
Hit(fs, key) == key \in DOMAIN fs

\* the entries of the view after the files of `keys` were asked for: a path
\* already in the view keeps its entry, another gets (content, st) from disk
Filled(fs, keys) ==
    [k \in DOMAIN fs \cup keys |-> IF k \in keys /\ ~Hit(fs, k) THEN tree[k] ELSE fs[k]]

\* the disk after the files of `read` were opened and read: a read can move the
\* atime of the file
Touched(read, moved) ==
    [k \in DOMAIN tree |-> IF k \in read /\ k \in moved
                           THEN [tree[k] EXCEPT !.st = Stat(@.mtime, 1)]
                           ELSE tree[k]]

Returned(op, key, keys, fs, error) ==
    [op |-> op, key |-> key, result |-> [k \in keys |-> fs[k].content], error |-> error,
     stale |-> \E k \in keys : fs[k].content # tree[k].content]

Recorded(fs) == [k \in DOMAIN first \cup DOMAIN fs |->
                       IF k \in DOMAIN first THEN first[k] ELSE fs[k]]

\* Repository.get_file(path)
GetFile(path) ==
    /\ repo_calls < MaxRepoCalls
    /\ repo_calls' = repo_calls + 1
    /\ LET key == normalize_path(path) IN
       IF Hit(view, key) \/ key \in DOMAIN tree
       THEN /\ view' = Filled(view, {key})
            /\ first' = Recorded(Filled(view, {key}))
            /\ last' = Returned("get_file", key, {key}, Filled(view, {key}), "none")
            /\ \E moved \in SUBSET {key} :
                 tree' = Touched({k \in {key} : ~Hit(view, k)}, moved)
       ELSE \* open raises: FileNotFoundError, or IsADirectoryError
            /\ last' = Returned("get_file", key, {}, view, "OSError")
            /\ UNCHANGED <<view, first, tree>>
    /\ UNCHANGED tree_writes
    /\ UNCHANGED otherThanRepo

\* Repository.get_files(path): the walk below root / normalized path; a walk
\* that starts at a regular file yields nothing, one at a missing path raises
GetFiles(path) ==
    /\ repo_calls < MaxRepoCalls
    /\ repo_calls' = repo_calls + 1
    /\ LET key == normalize_path(path) IN
       IF key \in RepoDirs
       THEN /\ view' = Filled(view, Under(key))
            /\ first' = Recorded(Filled(view, Under(key)))
            /\ last' = Returned("get_files", key, Under(key), Filled(view, Under(key)), "none")
            /\ \E moved \in SUBSET Under(key) :
                 tree' = Touched({k \in Under(key) : ~Hit(view, k)}, moved)
       ELSE IF key \in DOMAIN tree
       THEN /\ last' = Returned("get_files", key, {}, view, "none")
            /\ UNCHANGED <<view, first, tree>>
       ELSE /\ last' = Returned("get_files", key, {}, view, "OSError")
            /\ UNCHANGED <<view, first, tree>>
    /\ UNCHANGED tree_writes
    /\ UNCHANGED otherThanRepo

NextRepository ==
    \/ \E k \in DOMAIN tree : TreeWrite(k)
    \/ \E path \in RepoPathStrings : GetFile(path)
    \/ \E path \in RepoPathStrings : GetFiles(path)

\* C38: within one repository view an entry of `files` never changes once it
\* is there, it is the (content, st) the first read of the path recorded, and
\* every path a call of get_file or get_files returns is in `files` with the
\* bytes returned, also when the file on disk has changed since.
C38_ViewStable ==
    /\ [][\A k \in DOMAIN view : k \in DOMAIN view' /\ view'[k] = view[k]]_vars
    /\ [](\A k \in DOMAIN view : view[k] = first[k])
    /\ [](\A k \in DOMAIN last.result :
            k \in DOMAIN view /\ last.result[k] = view[k].content)

\* get_files has returned for a path the bytes of its first read although the
\* file on disk had other bytes by then
C38_Witness ==
    /\ last.op = "get_files"
    /\ last.stale
    /\ repo_calls >= 2
    /\ \E k \in DOMAIN last.result : last.result[k] = first[k].content

\* C39: the aggregate an admin apply returns has exactly one key per dispatched
\* target, the CN of that target: once the call has been answered, the answer
\* is a result and its keys are the names dispatched to.
C39_AggregateKeys ==
    (admin_apply.pc = "replied" /\ dispatched # <<>>) =>
        /\ admin_apply.reply = "true"
        /\ admin_apply.result = Range(DispatchedTo)

\* the session of connection n is inside its receive loop
InLoop(n) == connections[n].pc \in {"receiving", "draining"}

\* C40: for every common name at most one session is inside its receive loop,
\* and clients maps the name to that session: two connections of one name never
\* both stay live, and the end of a session never removes the entry of another
\* session that is still live.
C40_RegistryConsistent ==
    \A n \in 1..MaxConnections :
        InLoop(n) =>
            /\ Registered(n)
            /\ \A k \in 1..MaxConnections :
                 (InLoop(k) /\ connections[k].name = connections[n].name) => k = n

\* ------------------------------------------------------------ specifications
Init ==
    /\ ws_closed = FALSE
    /\ inbox = <<>>
    /\ outbox = <<>>
    /\ received = <<>>
    /\ next_cid = 0
    /\ pending_commands = EmptyMap
    /\ calls = [c \in 1..MaxCalls |-> [pc |-> "idle", cid |-> NULL, outcome |-> "none", value |-> 0]]
    /\ loop_pc = "reading"
    /\ current = NoRequest
    /\ background_tasks = EmptyMap
    /\ gathered = {}
    /\ finished = {}
    /\ yielded = <<>>
    /\ loop_error = FALSE
    /\ peer_sent = 0
    /\ disk = [p \in Paths |-> [content |-> "B1", st |-> Stat(1, 0)]]
    /\ writes = 0
    /\ remotely_known_files = EmptyMap
    /\ applies = [a \in 1..MaxApplies |-> IdleApply]
    /\ apply_cids = 0
    /\ sent = <<>>
    /\ agent_read = 0
    /\ files = EmptyMap
    /\ pending_files = <<>>
    /\ agent_pc = "reading"
    /\ agent_tasks = {}
    /\ back = <<>>
    /\ snapshots = <<>>
    /\ stored = <<>>
    /\ overlapped = FALSE
    /\ clients = <<>>
    /\ connections = [n \in 1..MaxConnections |-> NewConnection]
    /\ online_result = <<>>
    /\ online_keys = {}
    /\ admin_apply = IdleAdminApply
    /\ dispatched = <<>>
    /\ decrees = <<>>
    /\ policy = NewPolicy
    /\ apply_calls = 0
    /\ log = <<>>
    /\ seen = {}
    /\ loading = <<>>
    /\ evaluated = <<>>
    /\ load_calls = 0
    /\ last_load = NoLoad
    /\ load_state = "new"
    /\ main_pc = "connect"
    /\ connect_sleep = 0
    /\ connect_errors = {}
    /\ attempts = 0
    /\ collector = "none"
    /\ previous_facts = "object()"
    /\ facts_sleep = 0
    /\ agent_facts = "unset"
    /\ facts_wire = <<>>
    /\ report = None
    /\ report_result = "none"
    /\ target = [kind |-> "absent"]
    /\ initial = [kind |-> "absent"]
    /\ file_decree = [class |-> "none"]
    /\ file_action = [cached |-> FALSE]
    /\ needs = [remove |-> FALSE, chown |-> FALSE, create |-> FALSE]
    /\ update_needed = "unset"
    /\ file_updated = "unset"
    /\ file_applied = FALSE
    /\ file_pc = "new"
    /\ update_ran = FALSE
    /\ unit = [enabled |-> "disabled", active |-> FALSE]
    /\ service = [class |-> "none"]
    /\ change = [enable |-> None, active |-> None, mask |-> None]
    /\ was_active = FALSE
    /\ svc_needed = "unset"
    /\ svc_should = "unset"
    /\ svc_updated = "unset"
    /\ svc_activated = "unset"
    /\ svc_applied = FALSE
    /\ svc_pc = "new"
    /\ commands = <<>>
    /\ tree = [k \in {<<"x">>, <<"policy", "x">>} |-> [content |-> "B1", st |-> [mtime |-> 1, atime |-> 0]]]
    /\ tree_writes = 0
    /\ view = [k \in {} |-> 0]
    /\ first = [k \in {} |-> 0]
    /\ last = [op |-> "none", key |-> <<>>, result |-> [k \in {} |-> 0], error |-> "none",
               stale |-> FALSE]
    /\ repo_calls = 0

SpecRPC == Init /\ [][NextRPC]_vars

SpecApply == Init /\ [][NextApply]_vars

SpecController == Init /\ [][NextController]_vars

SpecAdmission == Init /\ [][NextAdmission]_vars

SpecAgent == Init /\ [][NextAgent]_vars

SpecFanout == Init /\ [][NextFanout]_vars

SpecDecree == Init /\ [][NextDecree]_vars
SpecLoad == Init /\ [][NextLoad]_vars
SpecGate == Init /\ [][NextGate]_vars
SpecMain == Init /\ [][NextMain]_vars
SpecFile == Init /\ [][NextFile]_vars
SpecService == Init /\ [][NextService]_vars
SpecRepository == Init /\ [][NextRepository]_vars
====
